---- MODULE Spec2Model ----
(***************************************************************************)
(* A model of the offline knowledge-base search of qwen_server/zim_tools.py *)
(* (search_zim and the functions it calls).  Text is a sequence of Unicode  *)
(* code points, a path is the sequence of its components, and the calls to  *)
(* libzim and markdownify are answered from the archives' records in        *)
(* `disk`.                                                                  *)
(***************************************************************************)
EXTENDS Integers, Sequences, FiniteSets, TLC

VARIABLES
  dirExists,   \* whether ZIM_DATA_PATH exists
  listing,     \* the names of the files in ZIM_DATA_PATH, in directory order
  disk,        \* file path -> the state of the archive file (ArchiveModes)
  op,          \* the public function that returned last ("init" before any)
  args,        \* the arguments of that call
  response,    \* the JSON object it returned
  raised,      \* TRUE iff it let an exception reach its caller
  calls        \* the per-archive calls it made, in order, with their outcome

vars == <<dirExists, listing, disk, op, args, response, raised, calls>>

----------------------------------------------------------------------------
(* Bounds of the model *)

\* max_results is drawn from 0..MaxResults
MaxResults == 3
\* get_random_entry answers from a cyclic stream of MaxDraws numbers
MaxDraws == 2

----------------------------------------------------------------------------
(* Text: sequences of code points *)

Min(a, b) == IF a < b THEN a ELSE b
Max(a, b) == IF a > b THEN a ELSE b

\* The capitals of Unicode 14 from U+00C0 on, as runs <<first, last, step,
\* distance to the lower-case letter>>: what str.lower() maps to one other
\* code point.
LowerRuns ==
  << <<192,214,1,32>>, <<216,222,1,32>>, <<256,302,2,1>>, <<306,310,2,1>>,
     <<313,327,2,1>>, <<330,374,2,1>>, <<376,376,1,-121>>, <<377,381,2,1>>,
     <<385,385,1,210>>, <<386,388,2,1>>, <<390,390,1,206>>, <<391,391,1,1>>,
     <<393,394,1,205>>, <<395,395,1,1>>, <<398,398,1,79>>, <<399,399,1,202>>,
     <<400,400,1,203>>, <<401,401,1,1>>, <<403,403,1,205>>, <<404,404,1,207>>,
     <<406,406,1,211>>, <<407,407,1,209>>, <<408,408,1,1>>, <<412,412,1,211>>,
     <<413,413,1,213>>, <<415,415,1,214>>, <<416,420,2,1>>, <<422,422,1,218>>,
     <<423,423,1,1>>, <<425,425,1,218>>, <<428,428,1,1>>, <<430,430,1,218>>,
     <<431,431,1,1>>, <<433,434,1,217>>, <<435,437,2,1>>, <<439,439,1,219>>,
     <<440,440,1,1>>, <<444,444,1,1>>, <<452,452,1,2>>, <<453,453,1,1>>,
     <<455,455,1,2>>, <<456,456,1,1>>, <<458,458,1,2>>, <<459,475,2,1>>,
     <<478,494,2,1>>, <<497,497,1,2>>, <<498,500,2,1>>, <<502,502,1,-97>>,
     <<503,503,1,-56>>, <<504,542,2,1>>, <<544,544,1,-130>>, <<546,562,2,1>>,
     <<570,570,1,10795>>, <<571,571,1,1>>, <<573,573,1,-163>>,
     <<574,574,1,10792>>, <<577,577,1,1>>, <<579,579,1,-195>>,
     <<580,580,1,69>>, <<581,581,1,71>>, <<582,590,2,1>>, <<880,882,2,1>>,
     <<886,886,1,1>>, <<895,895,1,116>>, <<902,902,1,38>>, <<904,906,1,37>>,
     <<908,908,1,64>>, <<910,911,1,63>>, <<913,929,1,32>>, <<931,939,1,32>>,
     <<975,975,1,8>>, <<984,1006,2,1>>, <<1012,1012,1,-60>>, <<1015,1015,1,1>>,
     <<1017,1017,1,-7>>, <<1018,1018,1,1>>, <<1021,1023,1,-130>>,
     <<1024,1039,1,80>>, <<1040,1071,1,32>>, <<1120,1152,2,1>>,
     <<1162,1214,2,1>>, <<1216,1216,1,15>>, <<1217,1229,2,1>>,
     <<1232,1326,2,1>>, <<1329,1366,1,48>>, <<4256,4293,1,7264>>,
     <<4295,4295,1,7264>>, <<4301,4301,1,7264>>, <<5024,5103,1,38864>>,
     <<5104,5109,1,8>>, <<7312,7354,1,-3008>>, <<7357,7359,1,-3008>>,
     <<7680,7828,2,1>>, <<7838,7838,1,-7615>>, <<7840,7934,2,1>>,
     <<7944,7951,1,-8>>, <<7960,7965,1,-8>>, <<7976,7983,1,-8>>,
     <<7992,7999,1,-8>>, <<8008,8013,1,-8>>, <<8025,8031,2,-8>>,
     <<8040,8047,1,-8>>, <<8072,8079,1,-8>>, <<8088,8095,1,-8>>,
     <<8104,8111,1,-8>>, <<8120,8121,1,-8>>, <<8122,8123,1,-74>>,
     <<8124,8124,1,-9>>, <<8136,8139,1,-86>>, <<8140,8140,1,-9>>,
     <<8152,8153,1,-8>>, <<8154,8155,1,-100>>, <<8168,8169,1,-8>>,
     <<8170,8171,1,-112>>, <<8172,8172,1,-7>>, <<8184,8185,1,-128>>,
     <<8186,8187,1,-126>>, <<8188,8188,1,-9>>, <<8486,8486,1,-7517>>,
     <<8490,8490,1,-8383>>, <<8491,8491,1,-8262>>, <<8498,8498,1,28>>,
     <<8544,8559,1,16>>, <<8579,8579,1,1>>, <<9398,9423,1,26>>,
     <<11264,11311,1,48>>, <<11360,11360,1,1>>, <<11362,11362,1,-10743>>,
     <<11363,11363,1,-3814>>, <<11364,11364,1,-10727>>, <<11367,11371,2,1>>,
     <<11373,11373,1,-10780>>, <<11374,11374,1,-10749>>,
     <<11375,11375,1,-10783>>, <<11376,11376,1,-10782>>, <<11378,11378,1,1>>,
     <<11381,11381,1,1>>, <<11390,11391,1,-10815>>, <<11392,11490,2,1>>,
     <<11499,11501,2,1>>, <<11506,11506,1,1>>, <<42560,42604,2,1>>,
     <<42624,42650,2,1>>, <<42786,42798,2,1>>, <<42802,42862,2,1>>,
     <<42873,42875,2,1>>, <<42877,42877,1,-35332>>, <<42878,42886,2,1>>,
     <<42891,42891,1,1>>, <<42893,42893,1,-42280>>, <<42896,42898,2,1>>,
     <<42902,42920,2,1>>, <<42922,42922,1,-42308>>, <<42923,42923,1,-42319>>,
     <<42924,42924,1,-42315>>, <<42925,42925,1,-42305>>,
     <<42926,42926,1,-42308>>, <<42928,42928,1,-42258>>,
     <<42929,42929,1,-42282>>, <<42930,42930,1,-42261>>, <<42931,42931,1,928>>,
     <<42932,42946,2,1>>, <<42948,42948,1,-48>>, <<42949,42949,1,-42307>>,
     <<42950,42950,1,-35384>>, <<42951,42953,2,1>>, <<42960,42960,1,1>>,
     <<42966,42968,2,1>>, <<42997,42997,1,1>>, <<65313,65338,1,32>>,
     <<66560,66599,1,40>>, <<66736,66771,1,40>>, <<66928,66938,1,39>>,
     <<66940,66954,1,39>>, <<66956,66962,1,39>>, <<66964,66965,1,39>>,
     <<68736,68786,1,64>>, <<71840,71871,1,32>>, <<93760,93791,1,32>>,
     <<125184,125217,1,34>> >>

\* The code points with the property Case_Ignorable, as ranges <<first, last>>
CaseIgnorableRanges ==
  << <<39,39>>, <<46,46>>, <<58,58>>, <<94,94>>, <<96,96>>, <<168,168>>,
     <<173,173>>, <<175,175>>, <<180,180>>, <<183,184>>, <<688,879>>,
     <<884,885>>, <<890,890>>, <<900,901>>, <<903,903>>, <<1155,1161>>,
     <<1369,1369>>, <<1375,1375>>, <<1425,1469>>, <<1471,1471>>, <<1473,1474>>,
     <<1476,1477>>, <<1479,1479>>, <<1524,1524>>, <<1536,1541>>, <<1552,1562>>,
     <<1564,1564>>, <<1600,1600>>, <<1611,1631>>, <<1648,1648>>, <<1750,1757>>,
     <<1759,1768>>, <<1770,1773>>, <<1807,1807>>, <<1809,1809>>, <<1840,1866>>,
     <<1958,1968>>, <<2027,2037>>, <<2042,2042>>, <<2045,2045>>, <<2070,2093>>,
     <<2137,2139>>, <<2184,2184>>, <<2192,2193>>, <<2200,2207>>, <<2249,2306>>,
     <<2362,2362>>, <<2364,2364>>, <<2369,2376>>, <<2381,2381>>, <<2385,2391>>,
     <<2402,2403>>, <<2417,2417>>, <<2433,2433>>, <<2492,2492>>, <<2497,2500>>,
     <<2509,2509>>, <<2530,2531>>, <<2558,2558>>, <<2561,2562>>, <<2620,2620>>,
     <<2625,2626>>, <<2631,2632>>, <<2635,2637>>, <<2641,2641>>, <<2672,2673>>,
     <<2677,2677>>, <<2689,2690>>, <<2748,2748>>, <<2753,2757>>, <<2759,2760>>,
     <<2765,2765>>, <<2786,2787>>, <<2810,2815>>, <<2817,2817>>, <<2876,2876>>,
     <<2879,2879>>, <<2881,2884>>, <<2893,2893>>, <<2901,2902>>, <<2914,2915>>,
     <<2946,2946>>, <<3008,3008>>, <<3021,3021>>, <<3072,3072>>, <<3076,3076>>,
     <<3132,3132>>, <<3134,3136>>, <<3142,3144>>, <<3146,3149>>, <<3157,3158>>,
     <<3170,3171>>, <<3201,3201>>, <<3260,3260>>, <<3263,3263>>, <<3270,3270>>,
     <<3276,3277>>, <<3298,3299>>, <<3328,3329>>, <<3387,3388>>, <<3393,3396>>,
     <<3405,3405>>, <<3426,3427>>, <<3457,3457>>, <<3530,3530>>, <<3538,3540>>,
     <<3542,3542>>, <<3633,3633>>, <<3636,3642>>, <<3654,3662>>, <<3761,3761>>,
     <<3764,3772>>, <<3782,3782>>, <<3784,3789>>, <<3864,3865>>, <<3893,3893>>,
     <<3895,3895>>, <<3897,3897>>, <<3953,3966>>, <<3968,3972>>, <<3974,3975>>,
     <<3981,3991>>, <<3993,4028>>, <<4038,4038>>, <<4141,4144>>, <<4146,4151>>,
     <<4153,4154>>, <<4157,4158>>, <<4184,4185>>, <<4190,4192>>, <<4209,4212>>,
     <<4226,4226>>, <<4229,4230>>, <<4237,4237>>, <<4253,4253>>, <<4348,4348>>,
     <<4957,4959>>, <<5906,5908>>, <<5938,5939>>, <<5970,5971>>, <<6002,6003>>,
     <<6068,6069>>, <<6071,6077>>, <<6086,6086>>, <<6089,6099>>, <<6103,6103>>,
     <<6109,6109>>, <<6155,6159>>, <<6211,6211>>, <<6277,6278>>, <<6313,6313>>,
     <<6432,6434>>, <<6439,6440>>, <<6450,6450>>, <<6457,6459>>, <<6679,6680>>,
     <<6683,6683>>, <<6742,6742>>, <<6744,6750>>, <<6752,6752>>, <<6754,6754>>,
     <<6757,6764>>, <<6771,6780>>, <<6783,6783>>, <<6823,6823>>, <<6832,6862>>,
     <<6912,6915>>, <<6964,6964>>, <<6966,6970>>, <<6972,6972>>, <<6978,6978>>,
     <<7019,7027>>, <<7040,7041>>, <<7074,7077>>, <<7080,7081>>, <<7083,7085>>,
     <<7142,7142>>, <<7144,7145>>, <<7149,7149>>, <<7151,7153>>, <<7212,7219>>,
     <<7222,7223>>, <<7288,7293>>, <<7376,7378>>, <<7380,7392>>, <<7394,7400>>,
     <<7405,7405>>, <<7412,7412>>, <<7416,7417>>, <<7468,7530>>, <<7544,7544>>,
     <<7579,7679>>, <<8125,8125>>, <<8127,8129>>, <<8141,8143>>, <<8157,8159>>,
     <<8173,8175>>, <<8189,8190>>, <<8203,8207>>, <<8216,8217>>, <<8228,8228>>,
     <<8231,8231>>, <<8234,8238>>, <<8288,8292>>, <<8294,8303>>, <<8305,8305>>,
     <<8319,8319>>, <<8336,8348>>, <<8400,8432>>, <<11388,11389>>,
     <<11503,11505>>, <<11631,11631>>, <<11647,11647>>, <<11744,11775>>,
     <<11823,11823>>, <<12293,12293>>, <<12330,12333>>, <<12337,12341>>,
     <<12347,12347>>, <<12441,12446>>, <<12540,12542>>, <<40981,40981>>,
     <<42232,42237>>, <<42508,42508>>, <<42607,42610>>, <<42612,42621>>,
     <<42623,42623>>, <<42652,42655>>, <<42736,42737>>, <<42752,42785>>,
     <<42864,42864>>, <<42888,42890>>, <<42994,42996>>, <<43000,43001>>,
     <<43010,43010>>, <<43014,43014>>, <<43019,43019>>, <<43045,43046>>,
     <<43052,43052>>, <<43204,43205>>, <<43232,43249>>, <<43263,43263>>,
     <<43302,43309>>, <<43335,43345>>, <<43392,43394>>, <<43443,43443>>,
     <<43446,43449>>, <<43452,43453>>, <<43471,43471>>, <<43493,43494>>,
     <<43561,43566>>, <<43569,43570>>, <<43573,43574>>, <<43587,43587>>,
     <<43596,43596>>, <<43632,43632>>, <<43644,43644>>, <<43696,43696>>,
     <<43698,43700>>, <<43703,43704>>, <<43710,43711>>, <<43713,43713>>,
     <<43741,43741>>, <<43756,43757>>, <<43763,43764>>, <<43766,43766>>,
     <<43867,43871>>, <<43881,43883>>, <<44005,44005>>, <<44008,44008>>,
     <<44013,44013>>, <<64286,64286>>, <<64434,64450>>, <<65024,65039>>,
     <<65043,65043>>, <<65056,65071>>, <<65106,65106>>, <<65109,65109>>,
     <<65279,65279>>, <<65287,65287>>, <<65294,65294>>, <<65306,65306>>,
     <<65342,65342>>, <<65344,65344>>, <<65392,65392>>, <<65438,65439>>,
     <<65507,65507>>, <<65529,65531>>, <<66045,66045>>, <<66272,66272>>,
     <<66422,66426>>, <<67456,67461>>, <<67463,67504>>, <<67506,67514>>,
     <<68097,68099>>, <<68101,68102>>, <<68108,68111>>, <<68152,68154>>,
     <<68159,68159>>, <<68325,68326>>, <<68900,68903>>, <<69291,69292>>,
     <<69446,69456>>, <<69506,69509>>, <<69633,69633>>, <<69688,69702>>,
     <<69744,69744>>, <<69747,69748>>, <<69759,69761>>, <<69811,69814>>,
     <<69817,69818>>, <<69821,69821>>, <<69826,69826>>, <<69837,69837>>,
     <<69888,69890>>, <<69927,69931>>, <<69933,69940>>, <<70003,70003>>,
     <<70016,70017>>, <<70070,70078>>, <<70089,70092>>, <<70095,70095>>,
     <<70191,70193>>, <<70196,70196>>, <<70198,70199>>, <<70206,70206>>,
     <<70367,70367>>, <<70371,70378>>, <<70400,70401>>, <<70459,70460>>,
     <<70464,70464>>, <<70502,70508>>, <<70512,70516>>, <<70712,70719>>,
     <<70722,70724>>, <<70726,70726>>, <<70750,70750>>, <<70835,70840>>,
     <<70842,70842>>, <<70847,70848>>, <<70850,70851>>, <<71090,71093>>,
     <<71100,71101>>, <<71103,71104>>, <<71132,71133>>, <<71219,71226>>,
     <<71229,71229>>, <<71231,71232>>, <<71339,71339>>, <<71341,71341>>,
     <<71344,71349>>, <<71351,71351>>, <<71453,71455>>, <<71458,71461>>,
     <<71463,71467>>, <<71727,71735>>, <<71737,71738>>, <<71995,71996>>,
     <<71998,71998>>, <<72003,72003>>, <<72148,72151>>, <<72154,72155>>,
     <<72160,72160>>, <<72193,72202>>, <<72243,72248>>, <<72251,72254>>,
     <<72263,72263>>, <<72273,72278>>, <<72281,72283>>, <<72330,72342>>,
     <<72344,72345>>, <<72752,72758>>, <<72760,72765>>, <<72767,72767>>,
     <<72850,72871>>, <<72874,72880>>, <<72882,72883>>, <<72885,72886>>,
     <<73009,73014>>, <<73018,73018>>, <<73020,73021>>, <<73023,73029>>,
     <<73031,73031>>, <<73104,73105>>, <<73109,73109>>, <<73111,73111>>,
     <<73459,73460>>, <<78896,78904>>, <<92912,92916>>, <<92976,92982>>,
     <<92992,92995>>, <<94031,94031>>, <<94095,94111>>, <<94176,94177>>,
     <<94179,94180>>, <<110576,110579>>, <<110581,110587>>, <<110589,110590>>,
     <<113821,113822>>, <<113824,113827>>, <<118528,118573>>,
     <<118576,118598>>, <<119143,119145>>, <<119155,119170>>,
     <<119173,119179>>, <<119210,119213>>, <<119362,119364>>,
     <<121344,121398>>, <<121403,121452>>, <<121461,121461>>,
     <<121476,121476>>, <<121499,121503>>, <<121505,121519>>,
     <<122880,122886>>, <<122888,122904>>, <<122907,122913>>,
     <<122915,122916>>, <<122918,122922>>, <<123184,123197>>,
     <<123566,123566>>, <<123628,123631>>, <<125136,125142>>,
     <<125252,125259>>, <<127995,127999>>, <<917505,917505>>,
     <<917536,917631>>, <<917760,917999>> >>

\* The code points with the property Cased, as ranges <<first, last>>
CasedRanges ==
  << <<65,90>>, <<97,122>>, <<170,170>>, <<181,181>>, <<186,186>>, <<192,214>>,
     <<216,246>>, <<248,442>>, <<444,447>>, <<452,659>>, <<661,696>>,
     <<704,705>>, <<736,740>>, <<837,837>>, <<880,883>>, <<886,887>>,
     <<890,893>>, <<895,895>>, <<902,902>>, <<904,906>>, <<908,908>>,
     <<910,929>>, <<931,1013>>, <<1015,1153>>, <<1162,1327>>, <<1329,1366>>,
     <<1376,1416>>, <<4256,4293>>, <<4295,4295>>, <<4301,4301>>, <<4304,4346>>,
     <<4349,4351>>, <<5024,5109>>, <<5112,5117>>, <<7296,7304>>, <<7312,7354>>,
     <<7357,7359>>, <<7424,7615>>, <<7680,7957>>, <<7960,7965>>, <<7968,8005>>,
     <<8008,8013>>, <<8016,8023>>, <<8025,8025>>, <<8027,8027>>, <<8029,8029>>,
     <<8031,8061>>, <<8064,8116>>, <<8118,8124>>, <<8126,8126>>, <<8130,8132>>,
     <<8134,8140>>, <<8144,8147>>, <<8150,8155>>, <<8160,8172>>, <<8178,8180>>,
     <<8182,8188>>, <<8305,8305>>, <<8319,8319>>, <<8336,8348>>, <<8450,8450>>,
     <<8455,8455>>, <<8458,8467>>, <<8469,8469>>, <<8473,8477>>, <<8484,8484>>,
     <<8486,8486>>, <<8488,8488>>, <<8490,8493>>, <<8495,8500>>, <<8505,8505>>,
     <<8508,8511>>, <<8517,8521>>, <<8526,8526>>, <<8544,8575>>, <<8579,8580>>,
     <<9398,9449>>, <<11264,11492>>, <<11499,11502>>, <<11506,11507>>,
     <<11520,11557>>, <<11559,11559>>, <<11565,11565>>, <<42560,42605>>,
     <<42624,42653>>, <<42786,42887>>, <<42891,42894>>, <<42896,42954>>,
     <<42960,42961>>, <<42963,42963>>, <<42965,42969>>, <<42997,42998>>,
     <<43000,43002>>, <<43824,43866>>, <<43868,43880>>, <<43888,43967>>,
     <<64256,64262>>, <<64275,64279>>, <<65313,65338>>, <<65345,65370>>,
     <<66560,66639>>, <<66736,66771>>, <<66776,66811>>, <<66928,66938>>,
     <<66940,66954>>, <<66956,66962>>, <<66964,66965>>, <<66967,66977>>,
     <<66979,66993>>, <<66995,67001>>, <<67003,67004>>, <<67456,67456>>,
     <<67459,67461>>, <<67463,67504>>, <<67506,67514>>, <<68736,68786>>,
     <<68800,68850>>, <<71840,71903>>, <<93760,93823>>, <<119808,119892>>,
     <<119894,119964>>, <<119966,119967>>, <<119970,119970>>,
     <<119973,119974>>, <<119977,119980>>, <<119982,119993>>,
     <<119995,119995>>, <<119997,120003>>, <<120005,120069>>,
     <<120071,120074>>, <<120077,120084>>, <<120086,120092>>,
     <<120094,120121>>, <<120123,120126>>, <<120128,120132>>,
     <<120134,120134>>, <<120138,120144>>, <<120146,120485>>,
     <<120488,120512>>, <<120514,120538>>, <<120540,120570>>,
     <<120572,120596>>, <<120598,120628>>, <<120630,120654>>,
     <<120656,120686>>, <<120688,120712>>, <<120714,120744>>,
     <<120746,120770>>, <<120772,120779>>, <<122624,122633>>,
     <<122635,122654>>, <<125184,125251>>, <<127280,127305>>,
     <<127312,127337>>, <<127344,127369>> >>

InRun(c, r) == c >= r[1] /\ c <= r[2] /\ (c - r[1]) % r[3] = 0
InRanges(c, T) == \E k \in 1..Len(T) : c >= T[k][1] /\ c <= T[k][2]
CaseIgnorable(c) == InRanges(c, CaseIgnorableRanges)
Cased(c) == InRanges(c, CasedRanges)

\* the lower-case letter of a code point other than U+0130
LowerLetter(c) ==
  IF c < 192 THEN (IF c >= 65 /\ c <= 90 THEN c + 32 ELSE c)
  ELSE IF \E k \in 1..Len(LowerRuns) : InRun(c, LowerRuns[k])
       THEN c + LowerRuns[CHOOSE k \in 1..Len(LowerRuns) : InRun(c, LowerRuns[k])][4]
  ELSE c

\* chr(c).lower(): the lower case of a one-character text.  U+0130 becomes
\* two code points, "i" and the combining dot above.
Lower(c) == IF c = 304 THEN <<105, 775>> ELSE <<LowerLetter(c)>>

\* the lower case of the capital sigma s[i]: the final form U+03C2 after a
\* cased letter and before none, case-ignorable code points skipped on both
\* sides, else U+03C3
final_sigma(s, i) ==
  LET Before == {j \in 1..(i - 1) : ~CaseIgnorable(s[j])}
      After == {j \in (i + 1)..Len(s) : ~CaseIgnorable(s[j])}
      Last(S) == CHOOSE j \in S : \A k \in S : k <= j
      First(S) == CHOOSE j \in S : \A k \in S : k >= j
  IN  IF Before = {} THEN 963
      ELSE IF ~Cased(s[Last(Before)]) THEN 963
      ELSE IF After = {} THEN 962
      ELSE IF Cased(s[First(After)]) THEN 963
      ELSE 962

\* the lower case of s[i] within s
LowerAt(s, i) == IF s[i] = 931 THEN <<final_sigma(s, i)>> ELSE Lower(s[i])

\* the lower case of s[lo..hi], joined by halves
RECURSIVE LowerRange(_, _, _)
LowerRange(s, lo, hi) ==
  IF lo > hi THEN <<>>
  ELSE IF lo = hi THEN LowerAt(s, lo)
  ELSE LowerRange(s, lo, (lo + hi) \div 2) \o LowerRange(s, (lo + hi) \div 2 + 1, hi)

\* s.lower()  (built as a tuple; code point by code point where none becomes
\* two)
LowerStr(s) ==
  IF \E i \in 1..Len(s) : s[i] = 304
  THEN LowerRange(s, 1, Len(s))
  ELSE [i \in 1..Len(s) |->
          IF s[i] = 931 THEN final_sigma(s, i) ELSE LowerLetter(s[i])] \o <<>>

\* needle in hay  (Python's substring test; the empty needle is in every text)
Contains(hay, needle) ==
  \/ needle = <<>>
  \/ \E i \in 1..(Len(hay) - Len(needle) + 1) :
       hay[i] = needle[1] /\ SubSeq(hay, i, i + Len(needle) - 1) = needle

\* s[:n]  (Python's slice: a negative n counts from the end)
Slice(s, n) ==
  IF n >= 0 THEN SubSeq(s, 1, Min(n, Len(s)))
  ELSE SubSeq(s, 1, Max(Len(s) + n, 0))

\* "Redirect to: "
RedirectTo == <<82,101,100,105,114,101,99,116,32,116,111,58,32>>
\* "..."
Ellipsis == <<46,46,46>>

----------------------------------------------------------------------------
(* The language filter *)

\* '(Español)', '(Français)', '(Deutsch)', '(Italiano)', '(Polski)',
\* '(Português)', '(Русский)', '(简体中文)', '(正體中文)', '(Magyar)',
\* '(العربية)', '(日本語)', '(한국어)', '(Nederlands)', '(Svenska)',
\* '(Türkçe)', '(Čeština)', '(Ελληνικά)', '(Български)'
foreign_indicators ==
  << <<40,69,115,112,97,241,111,108,41>>,
     <<40,70,114,97,110,231,97,105,115,41>>,
     <<40,68,101,117,116,115,99,104,41>>,
     <<40,73,116,97,108,105,97,110,111,41>>,
     <<40,80,111,108,115,107,105,41>>,
     <<40,80,111,114,116,117,103,117,234,115,41>>,
     <<40,1056,1091,1089,1089,1082,1080,1081,41>>,
     <<40,31616,20307,20013,25991,41>>,
     <<40,27491,39636,20013,25991,41>>,
     <<40,77,97,103,121,97,114,41>>,
     <<40,1575,1604,1593,1585,1576,1610,1577,41>>,
     <<40,26085,26412,35486,41>>,
     <<40,54620,44397,50612,41>>,
     <<40,78,101,100,101,114,108,97,110,100,115,41>>,
     <<40,83,118,101,110,115,107,97,41>>,
     <<40,84,252,114,107,231,101,41>>,
     <<40,268,101,353,116,105,110,97,41>>,
     <<40,917,955,955,951,957,953,954,940,41>>,
     <<40,1041,1098,1083,1075,1072,1088,1089,1082,1080,41>> >>

\* 'cet article', 'cette page', 'artikel', 'artículo', 'artigo',
\* 'данная статья', '本文', '이 문서', 'dit artikel', 'questa pagina'
non_english_phrases ==
  << <<99,101,116,32,97,114,116,105,99,108,101>>,
     <<99,101,116,116,101,32,112,97,103,101>>,
     <<97,114,116,105,107,101,108>>,
     <<97,114,116,237,99,117,108,111>>,
     <<97,114,116,105,103,111>>,
     <<1076,1072,1085,1085,1072,1103,32,1089,1090,1072,1090,1100,1103>>,
     <<26412,25991>>,
     <<51060,32,47928,49436>>,
     <<100,105,116,32,97,114,116,105,107,101,108>>,
     <<113,117,101,115,116,97,32,112,97,103,105,110,97>> >>

\* the number of leading characters of the content the filter reads
ContentCheckLen == 200

\* indicator.lower() of every indicator
foreign_indicators_lower ==
  [k \in 1..Len(foreign_indicators) |-> LowerStr(foreign_indicators[k])]

\* a plausible slip: the filter reads the whole content, not its first 200
\* characters
IsEnglishWholeContent(title, content) ==
  LET title_lower == LowerStr(title)
      content_lower == LowerStr(content)
  IN  /\ \A k \in 1..Len(foreign_indicators) :
            ~Contains(title_lower, foreign_indicators_lower[k])
      /\ \A k \in 1..Len(non_english_phrases) :
            ~Contains(content_lower, non_english_phrases[k])

_is_english_content(title, content) ==
  LET title_lower == LowerStr(title)
      content_lower == Slice(LowerStr(content), ContentCheckLen)
  IN  /\ \A k \in 1..Len(foreign_indicators) :
            ~Contains(title_lower, foreign_indicators_lower[k])
      /\ \A k \in 1..Len(non_english_phrases) :
            ~Contains(content_lower, non_english_phrases[k])

----------------------------------------------------------------------------
(* Paths and the file system *)

\* Path(__file__).parent.parent / "data" / "zim"
ZIM_DATA_PATH == <<"/", "srv", "wikid", "data", "zim">>

\* an archive kept outside the data directory
OutsideFile == <<"/", "mnt", "x.zim">>

\* an archive with more entries than the title scan samples
BigFile == <<"/", "mnt", "big.zim">>

\* the file names the data directory may hold, in name order
ZimStems == <<"a", "b", "c">>
ZimNames == {ZimStems[i] \o ".zim" : i \in 1..Len(ZimStems)}

\* os.path.isabs(zim_file)
IsAbs(p) == Len(p) > 0 /\ p[1] = "/"

\* base / rel
Join(base, rel) == base \o rel

\* f"{zim_file}.zim"
WithExt(p) == [p EXCEPT ![Len(p)] = p[Len(p)] \o ".zim"]

\* path.name
Name(p) == p[Len(p)]

\* path.stem: the name up to its last dot, or the whole name when it has no
\* dot or its last dot is its first or its last character
Stem(name) ==
  LET Dots == {i \in 1..Len(name) : SubSeq(name, i, i) = "."}
      LastDot == CHOOSE i \in Dots : \A j \in Dots : j <= i
  IN  IF Dots = {} THEN name
      ELSE IF LastDot = 1 \/ LastDot = Len(name) THEN name
      ELSE SubSeq(name, 1, LastDot - 1)

\* a plausible slip: zim_path.stem for zim_path.name
SourceZimStem(zim_path) == Stem(Name(zim_path))

\* "source_zim": zim_path.name
SourceZim(zim_path) == Name(zim_path)

\* the regular files that exist
Files == {Join(ZIM_DATA_PATH, <<listing[i]>>) : i \in 1..Len(listing)} \cup {OutsideFile}

\* the directories that exist
Prefixes(p) == {SubSeq(p, 1, n) : n \in 1..Len(p)}
Dirs ==
  (IF dirExists THEN Prefixes(ZIM_DATA_PATH)
                ELSE Prefixes(SubSeq(ZIM_DATA_PATH, 1, Len(ZIM_DATA_PATH) - 1)))
  \cup Prefixes(SubSeq(OutsideFile, 1, Len(OutsideFile) - 1))

\* the file or directory the operating system reaches by walking p from the
\* root, ".." being the parent of the directory reached so far; <<>> if none
RECURSIVE Walk(_, _, _)
Walk(p, i, cur) ==
  IF i > Len(p) THEN cur
  ELSE IF cur \notin Dirs THEN <<>>
  ELSE IF p[i] = ".." THEN Walk(p, i + 1, IF Len(cur) > 1 THEN SubSeq(cur, 1, Len(cur) - 1) ELSE cur)
  ELSE Walk(p, i + 1, Append(cur, p[i]))

Resolve(p) == IF IsAbs(p) THEN Walk(p, 2, <<"/">>) ELSE <<>>

\* path.exists()
Exists(p) == Resolve(p) \in (Files \cup Dirs)

\* a plausible slip: a pattern that also finds archives outside the directory
GlobBeyond ==
  [i \in 1..Len(listing) |-> Join(ZIM_DATA_PATH, <<listing[i]>>)] \o <<OutsideFile>>

\* the name matches the pattern "*.zim"
IsZim(name) == Len(name) >= 4 /\ SubSeq(name, Len(name) - 3, Len(name)) = ".zim"

\* ZIM_DATA_PATH.glob("*.zim")
Glob ==
  SelectSeq([i \in 1..Len(listing) |-> Join(ZIM_DATA_PATH, <<listing[i]>>)],
            LAMBDA p : IsZim(Name(p)))

\* a plausible slip: the path is returned without asking whether it exists
ResolveUnchecked(zim_file) ==
  IF IsAbs(zim_file) THEN zim_file ELSE Join(ZIM_DATA_PATH, zim_file)

\* the file name has an extension: its last dot is neither its first nor its
\* last character
HasExt(name) == Stem(name) # name

\* a plausible slip: ".zim" is appended only to a name without extension
ResolveExtensionless(zim_file) ==
  IF IsAbs(zim_file)
  THEN IF Exists(zim_file) THEN zim_file ELSE <<>>
  ELSE IF Exists(Join(ZIM_DATA_PATH, zim_file)) THEN Join(ZIM_DATA_PATH, zim_file)
  ELSE IF ~HasExt(Name(zim_file)) /\ Exists(Join(ZIM_DATA_PATH, WithExt(zim_file)))
  THEN Join(ZIM_DATA_PATH, WithExt(zim_file))
  ELSE <<>>

\* _resolve_zim_file(zim_file); <<>> is None
_resolve_zim_file(zim_file) ==
  IF IsAbs(zim_file)
  THEN IF Exists(zim_file) THEN zim_file ELSE <<>>
  ELSE IF Exists(Join(ZIM_DATA_PATH, zim_file)) THEN Join(ZIM_DATA_PATH, zim_file)
  ELSE IF Exists(Join(ZIM_DATA_PATH, WithExt(zim_file))) THEN Join(ZIM_DATA_PATH, WithExt(zim_file))
  ELSE <<>>

----------------------------------------------------------------------------
(* The archives: what libzim and markdownify answer *)

\* An entry: title and path, the entry it redirects to (0: it is no redirect),
\* the text md() renders from its content, whether reading its content raises,
\* and the score the full-text index gives it.
Entry(title, path, redirect, rendered, unreadable, score) ==
  [title |-> title, path |-> path, redirect |-> redirect, rendered |-> rendered,
   unreadable |-> unreadable, score |-> score]

\* "Systemd", "Systemd (Deutsch)", "Sysctl", "Sysv init", "System", "Syslog",
\* "Sysfs (DEUTSCH)", "Sysfs"
T_Systemd == <<83,121,115,116,101,109,100>>
T_SystemdDe == <<83,121,115,116,101,109,100,32,40,68,101,117,116,115,99,104,41>>
T_Sysctl == <<83,121,115,99,116,108>>
T_SysvInit == <<83,121,115,118,32,105,110,105,116>>
T_System == <<83,121,115,116,101,109>>
T_Syslog == <<83,121,115,108,111,103>>
T_SysfsDE == <<83,121,115,102,115,32,40,68,69,85,84,83,67,72,41>>
T_Sysfs == <<83,121,115,102,115>>
\* "Sysfs alias", "Sysfs link"
T_SysfsAlias == <<83,121,115,102,115,32,97,108,105,97,115>>
T_SysfsLink == <<83,121,115,102,115,32,108,105,110,107>>
\* "systemd is an init system", "systemd ist ein init-System",
\* "Dit Artikel beschrijft sysctl", "syslog collects log messages",
\* "sysfs exports kernel objects"
X_Systemd == <<115,121,115,116,101,109,100,32,105,115,32,97,110,32,105,110,105,116,32,115,121,115,116,101,109>>
X_SystemdDe == <<115,121,115,116,101,109,100,32,105,115,116,32,101,105,110,32,105,110,105,116,45,83,121,115,116,101,109>>
X_Sysctl == <<68,105,116,32,65,114,116,105,107,101,108,32,98,101,115,99,104,114,105,106,102,116,32,115,121,115,99,116,108>>
X_Syslog == <<115,121,115,108,111,103,32,99,111,108,108,101,99,116,115,32,108,111,103,32,109,101,115,115,97,103,101,115>>
X_Sysfs == <<115,121,115,102,115,32,101,120,112,111,114,116,115,32,107,101,114,110,101,108,32,111,98,106,101,99,116,115>>
\* "Page " and "a page of the big archive"
T_Page == <<80,97,103,101,32>>
X_Page == <<97,32,112,97,103,101,32,111,102,32,116,104,101,32,98,105,103,32,97,114,99,104,105,118,101>>
\* "systemd unit files"
X_SystemdUnits == <<115,121,115,116,101,109,100,32,117,110,105,116,32,102,105,108,101,115>>

\* "A/" + title: the path of an article
InA(title) == <<65,47>> \o title

\* str(n)
RECURSIVE Digits(_)
Digits(n) == IF n < 10 THEN <<48 + n>> ELSE Digits(n \div 10) \o <<48 + (n % 10)>>

\* the number of entries of the big archive
BigCount == 1001

\* the entries of the big archive: "Syslog" and the pages "Page 2", "Page 3", ...
BigEntries ==
  [i \in 1..BigCount |->
     IF i = 1 THEN Entry(T_Syslog, InA(T_Syslog), 0, X_Syslog, FALSE, 3)
     ELSE Entry(T_Page \o Digits(i), InA(T_Page \o Digits(i)), 0, X_Page, FALSE, 0)]

\* the entries of each archive file, by file name; the second entry of b.zim
\* has the title of the first as its path, c.zim holds an article of a.zim's
\* title, and the archive outside the directory a redirect to a redirect
Entries(name) ==
  CASE name = "a.zim" ->
         << Entry(T_Systemd, InA(T_Systemd), 0, X_Systemd, FALSE, 9),
            Entry(T_SystemdDe, InA(T_SystemdDe), 0, X_SystemdDe, FALSE, 8) >>
    [] name = "b.zim" ->
         << Entry(T_Sysctl, InA(T_Sysctl), 0, X_Sysctl, FALSE, 7),
            Entry(T_SysvInit, T_Sysctl, 1, <<>>, FALSE, 5) >>
    [] name = "c.zim" ->
         << Entry(T_Syslog, InA(T_Syslog), 0, X_Syslog, FALSE, 3),
            Entry(T_System, InA(T_System), 0, <<>>, TRUE, 10),
            Entry(T_Systemd, InA(T_Systemd), 0, X_SystemdUnits, FALSE, 1) >>
    [] name = "big.zim" -> BigEntries
    [] OTHER ->
         << Entry(T_SysfsDE, InA(T_SysfsDE), 0, X_Sysfs, FALSE, 4),
            Entry(T_Sysfs, InA(T_Sysfs), 0, X_Sysfs, FALSE, 6),
            Entry(T_SysfsAlias, InA(T_SysfsAlias), 4, <<>>, FALSE, 2),
            Entry(T_SysfsLink, InA(T_SysfsLink), 2, <<>>, FALSE, 1) >>

\* What archive.get_metadata(key) does: it raises (the archive has no such
\* metadata), or returns bytes that are the UTF-8 form of `text` or, when
\* `decodes` is false, no UTF-8 at all.
NoMetadata == [raises |-> TRUE, decodes |-> FALSE, text |-> ""]
MetadataText(text) == [raises |-> FALSE, decodes |-> TRUE, text |-> text]
MetadataNoUtf8 == [raises |-> FALSE, decodes |-> FALSE, text |-> ""]

\* the metadata of each archive file, by file name: a.zim has all of it, b.zim
\* an empty title and a date that is no UTF-8, the other archives none
Metadata(name) ==
  CASE name = "a.zim" ->
         [Title |-> MetadataText("Arch Wiki"), Description |-> MetadataText("The wiki of Arch Linux"),
          Creator |-> MetadataText("Arch"), Publisher |-> MetadataText("Kiwix"),
          Date |-> MetadataText("2024-01-01")]
    [] name = "b.zim" ->
         [Title |-> MetadataText(""), Description |-> MetadataText("Kernel pages"),
          Creator |-> NoMetadata, Publisher |-> NoMetadata, Date |-> MetadataNoUtf8]
    [] OTHER ->
         [Title |-> NoMetadata, Description |-> NoMetadata, Creator |-> NoMetadata,
          Publisher |-> NoMetadata, Date |-> NoMetadata]

\* An archive file: whether Archive() opens it, whether it has a full-text
\* index, whether a search of its indexes (full text, suggestions) raises, its
\* entries and its metadata.
ArchiveModes == {"broken", "noindex", "indexfail", "indexed"}
ArchiveOf(name, mode) ==
  [readable |-> mode # "broken",
   has_fulltext_index |-> mode \in {"indexfail", "indexed"},
   searchable |-> mode # "indexfail",
   entries |-> Entries(name),
   metadata |-> Metadata(name)]

\* archive.article_count and archive.media_count: the archives hold articles
\* and redirects to them, and no media
article_count(archive) ==
  Cardinality({i \in 1..Len(archive.entries) : archive.entries[i].redirect = 0})
media_count(archive) == 0

\* the queries a call may carry: "SYS", "init"
Queries == { <<83,89,83>>, <<105,110,105,116>> }

\* the zim_file arguments a call may carry; <<>> is None
ZimFileArgs ==
  { <<>>, <<"a.zim">>, <<"b">>, <<"nope">>,
    Join(ZIM_DATA_PATH, <<"c.zim">>), OutsideFile }

\* the titles a call of get_zim_entry may carry: "Systemd", "Sysctl",
\* "Sysv init", "System", "Sysfs alias", the path "A/Syslog", "Nope"
EntryArgs ==
  { T_Systemd, T_Sysctl, T_SysvInit, T_System, T_SysfsAlias, InA(T_Syslog),
    <<78,111,112,101>> }

\* the streams of numbers get_random_entry may draw from
Streams == [1..MaxDraws -> 0..1]

\* the archive in the file f
ArchiveAt(f) == ArchiveOf(Name(f), disk[f])

\* whether Archive(str(zim_path)) opens an archive (it raises otherwise)
Opens(zim_path) ==
  \E f \in {Resolve(zim_path)} : f \in DOMAIN disk /\ ArchiveAt(f).readable

\* Archive(str(zim_path))
Open(zim_path) == ArchiveAt(Resolve(zim_path))

\* searcher.search(Query(query)): the entries of the index that hold the
\* query in their title or text, best score first
RECURSIVE Ranked(_, _, _)
Ranked(archive, query, done) ==
  LET Matching(q) == {i \in 1..Len(archive.entries) :
                        /\ i \notin done
                        /\ \/ Contains(LowerStr(archive.entries[i].title), q)
                           \/ Contains(LowerStr(archive.entries[i].rendered), q)}
      Best(left) == CHOOSE i \in left :
                      \A j \in left : archive.entries[j].score <= archive.entries[i].score
      Then(best) == <<best>> \o Ranked(archive, query, done \cup {best})
      From(left) == IF left = {} THEN <<>> ELSE Then(Best(left))
  IN  From(Matching(LowerStr(query)))

\* search.getResults(i, 1)[0] for an entry of the index
IndexResult(e) == [path |-> e.path, url |-> e.path, score |-> e.score, snippet |-> e.title]

\* archive.get_entry_by_path(path): the number of the entry, 0 when it raises
EntryByPath(archive, path) ==
  IF \E i \in 1..Len(archive.entries) : archive.entries[i].path = path
  THEN CHOOSE i \in 1..Len(archive.entries) : archive.entries[i].path = path
  ELSE 0

----------------------------------------------------------------------------
(* _search_archive *)

\* the longest preview before it is cut, and the longest snippet
PreviewLen == 500
SnippetLen == 200
\* the sample budget of the title scan
SampleBudget == 1000
\* the score of a title match
TitleScore == 1

\* The preview of an entry (lines 270-279 and 314-321): [raised, text]
ContentPreview(archive, entry) ==
  IF entry.redirect # 0
  THEN [raised |-> FALSE, text |-> RedirectTo \o archive.entries[entry.redirect].title]
  ELSE IF entry.unreadable
  THEN [raised |-> TRUE, text |-> <<>>]
  ELSE [raised |-> FALSE,
        text |-> IF Len(entry.rendered) > PreviewLen
                 THEN Slice(entry.rendered, PreviewLen) \o Ellipsis
                 ELSE entry.rendered]

\* the hit of the indexed search for the i-th result (0-based), or <<>> when
\* the entry is skipped: an exception, or the language filter
IndexedHit(archive, zim_path, ranked, i) ==
  LET Hit(result, entry, preview) ==
        IF preview.raised THEN <<>>
        ELSE IF _is_english_content(entry.title, preview.text)
        THEN << [title |-> entry.title,
                 path |-> result.path,
                 url |-> result.url,
                 score |-> result.score,
                 snippet |-> result.snippet,
                 content_preview |-> preview.text,
                 source_zim |-> SourceZim(zim_path)] >>
        ELSE <<>>
      Entered(result, entry) == Hit(result, entry, ContentPreview(archive, entry))
      Found(result, n) == IF n = 0 THEN <<>> ELSE Entered(result, archive.entries[n])
      Result(result) == Found(result, EntryByPath(archive, result.path))
  IN  IF i + 1 > Len(ranked) THEN <<>>
      ELSE Result(IndexResult(archive.entries[ranked[i + 1]]))

\* a plausible slip: the indexed search goes down the index until it has n
\* hits, a dropped result being replaced by the next one
RECURSIVE IndexedLoopRefill(_, _, _, _, _)
IndexedLoopRefill(archive, zim_path, ranked, n, i) ==
  LET Rest(hit) ==
        hit \o IndexedLoopRefill(archive, zim_path, ranked, n - Len(hit), i + 1)
  IN  IF n <= 0 \/ i >= Len(ranked) THEN <<>>
      ELSE Rest(IndexedHit(archive, zim_path, ranked, i))

\* a plausible slip: the indexed search stops at the first result that cannot
\* be processed
RECURSIVE IndexedLoopStopAtFailure(_, _, _, _, _)
IndexedLoopStopAtFailure(archive, zim_path, ranked, n, i) ==
  IF i >= n THEN <<>>
  ELSE IF ContentPreview(archive, archive.entries[ranked[i + 1]]).raised THEN <<>>
  ELSE IndexedHit(archive, zim_path, ranked, i)
       \o IndexedLoopStopAtFailure(archive, zim_path, ranked, n, i + 1)

\* for i in range(min(max_results, estimated))
RECURSIVE IndexedLoop(_, _, _, _, _)
IndexedLoop(archive, zim_path, ranked, n, i) ==
  IF i >= n THEN <<>>
  ELSE IndexedHit(archive, zim_path, ranked, i) \o IndexedLoop(archive, zim_path, ranked, n, i + 1)

\* archive.get_random_entry() at the d-th draw (0-based) of the stream rnd
RandomEntry(archive, rnd, d) ==
  archive.entries[(rnd[(d % Len(rnd)) + 1] % Len(archive.entries)) + 1]

\* a plausible slip: the title scan forgets the language filter
ScanHitUnfiltered(archive, zim_path, query, entry) ==
  LET Hit(preview) ==
        IF preview.raised THEN [hit |-> <<>>, counted |-> 0]
        ELSE [hit |-> << [title |-> entry.title,
                          path |-> entry.path,
                          url |-> <<47>> \o entry.path,
                          score |-> 1,
                          snippet |-> preview.text,
                          content_preview |-> preview.text,
                          source_zim |-> Name(zim_path)] >>,
              counted |-> 1]
  IN  IF ~Contains(LowerStr(entry.title), LowerStr(query))
      THEN [hit |-> <<>>, counted |-> 0]
      ELSE Hit(ContentPreview(archive, entry))

\* a plausible slip: the title scan forgets to compare the title with the query
ScanHitAnyTitle(archive, zim_path, query, entry) ==
  LET Hit(preview) ==
        IF preview.raised THEN [hit |-> <<>>, counted |-> 0]
        ELSE [hit |-> IF _is_english_content(entry.title, preview.text)
                      THEN << [title |-> entry.title,
                               path |-> entry.path,
                               url |-> <<47>> \o entry.path,
                               score |-> TitleScore,
                               snippet |-> IF Len(preview.text) > SnippetLen
                                           THEN Slice(preview.text, SnippetLen) \o Ellipsis
                                           ELSE preview.text,
                               content_preview |-> preview.text,
                               source_zim |-> SourceZim(zim_path)] >>
                      ELSE <<>>,
              counted |-> 1]
  IN  Hit(ContentPreview(archive, entry))

\* one turn of the title scan on a drawn entry: [hit, counted]
ScanHit(archive, zim_path, query, entry) ==
  LET Hit(preview) ==
        IF preview.raised THEN [hit |-> <<>>, counted |-> 0]
        ELSE [hit |-> IF _is_english_content(entry.title, preview.text)
                      THEN << [title |-> entry.title,
                               path |-> entry.path,
                               url |-> <<47>> \o entry.path,
                               score |-> TitleScore,
                               snippet |-> IF Len(preview.text) > SnippetLen
                                           THEN Slice(preview.text, SnippetLen) \o Ellipsis
                                           ELSE preview.text,
                               content_preview |-> preview.text,
                               source_zim |-> SourceZim(zim_path)] >>
                      ELSE <<>>,
              counted |-> 1]
  IN  IF ~Contains(LowerStr(entry.title), LowerStr(query))
      THEN [hit |-> <<>>, counted |-> 0]
      ELSE Hit(ContentPreview(archive, entry))

\* The turns lo..hi-1 of `for i in range(min(1000, archive.entry_count))`,
\* run in order from the state st = [results, drawn, count] the earlier turns
\* left, the draws taken from draw k of the stream. The turns are run as the
\* first half followed by the second half, which is the same fold with a
\* shallow nesting; once count reaches max_results no turn draws (the break).
RECURSIVE ScanLoop(_, _, _, _, _, _, _, _, _)
ScanLoop(archive, zim_path, query, max_results, rnd, k, lo, hi, st) ==
  LET Added(turn) ==
        [results |-> st.results \o turn.hit, drawn |-> st.drawn + 1,
         count |-> st.count + turn.counted]
      Halves(mid) ==
        ScanLoop(archive, zim_path, query, max_results, rnd, k, mid, hi,
                 ScanLoop(archive, zim_path, query, max_results, rnd, k, lo, mid, st))
  IN  IF lo >= hi \/ st.count >= max_results THEN st
      ELSE IF hi = lo + 1
      THEN Added(ScanHit(archive, zim_path, query, RandomEntry(archive, rnd, k + lo)))
      ELSE Halves((lo + hi) \div 2)

\* a plausible slip: the indexed search returns whenever the query completes,
\* also with no match
IndexAnswersAnyEstimate(archive, ranked) ==
  /\ archive.has_fulltext_index
  /\ archive.searchable

\* a plausible slip: the title scan takes as many turns as the archive has
\* entries
SampleSizeWhole(archive) == Len(archive.entries)

\* min(1000, archive.entry_count): the turns of the title scan
SampleSize(archive) == Min(SampleBudget, Len(archive.entries))

\* whether the indexed search of an opened archive returns (line 297); when
\* it does not, the title scan runs
IndexAnswers(archive, ranked) ==
  /\ archive.has_fulltext_index
  /\ archive.searchable
  /\ Len(ranked) > 0

\* _search_archive(zim_path, query, max_results), get_random_entry drawing
\* from draw k of rnd: [raised, results, drawn, via]
_search_archive(zim_path, query, max_results, rnd, k) ==
  LET Scanned(scan) ==
        [raised |-> FALSE, results |-> scan.results, drawn |-> scan.drawn, via |-> "scan"]
      Searched(archive, ranked) ==
        IF IndexAnswers(archive, ranked)
        THEN [raised |-> FALSE,
              results |-> IndexedLoop(archive, zim_path, ranked,
                                      Min(max_results, Len(ranked)), 0),
              drawn |-> 0, via |-> "index"]
        ELSE Scanned(ScanLoop(archive, zim_path, query, max_results, rnd, k,
                              0, SampleSize(archive),
                              [results |-> <<>>, drawn |-> 0, count |-> 0]))
      Opened(archive) == Searched(archive, Ranked(archive, query, {}))
  IN  IF ~Opens(zim_path)
      THEN [raised |-> TRUE, results |-> <<>>, drawn |-> 0, via |-> "none"]
      ELSE Opened(Open(zim_path))

----------------------------------------------------------------------------
(* search_zim *)

\* try: body / except Exception: return json.dumps(error): an exception of
\* the body becomes the error object of the function
Caught(body, error) ==
  IF body.raised
  THEN [raised |-> FALSE, response |-> error, calls |-> body.calls]
  ELSE body

\* the limit each archive gets when all archives are searched (line 130)
PerArchiveLimit(max_results) == max_results \div 2

\* a plausible slip: no try around the search of one archive, so the first
\* failure ends the loop
RECURSIVE SearchAllStopAtFailure(_, _, _, _, _, _)
SearchAllStopAtFailure(paths, i, query, max_results, rnd, k) ==
  LET Joined(found, call, rest) ==
        IF found.raised THEN [results |-> <<>>, calls |-> <<call>>]
        ELSE [results |-> found.results \o rest.results, calls |-> <<call>> \o rest.calls]
      Searched(found) ==
        Joined(found,
               [path |-> paths[i], limit |-> max_results \div 2,
                raised |-> found.raised, via |-> found.via, drawn |-> found.drawn,
                results |-> found.results],
               SearchAllStopAtFailure(paths, i + 1, query, max_results, rnd, k + found.drawn))
  IN  IF i > Len(paths) THEN [results |-> <<>>, calls |-> <<>>]
      ELSE Searched(_search_archive(paths[i], query, max_results \div 2, rnd, k))

\* for zim_path in ZIM_DATA_PATH.glob("*.zim"), from the i-th path on, with k
\* draws made so far: [results, calls]
RECURSIVE SearchAll(_, _, _, _, _, _)
SearchAll(paths, i, query, max_results, rnd, k) ==
  LET Joined(found, call, rest) ==
        [results |-> (IF found.raised THEN <<>> ELSE found.results) \o rest.results,
         calls |-> <<call>> \o rest.calls]
      Searched(found) ==
        Joined(found,
               [path |-> paths[i], limit |-> PerArchiveLimit(max_results),
                raised |-> found.raised, via |-> found.via, drawn |-> found.drawn,
                results |-> found.results],
               SearchAll(paths, i + 1, query, max_results, rnd, k + found.drawn))
  IN  IF i > Len(paths) THEN [results |-> <<>>, calls |-> <<>>]
      ELSE Searched(_search_archive(paths[i], query, PerArchiveLimit(max_results), rnd, k))

\* the hits, best score first
RECURSIVE ByScore(_)
ByScore(hits) ==
  IF hits = <<>> THEN <<>>
  ELSE LET b == CHOOSE i \in 1..Len(hits) :
                  /\ \A j \in 1..Len(hits) : hits[j].score <= hits[i].score
                  /\ \A j \in 1..(i - 1) : hits[j].score < hits[i].score
       IN  <<hits[b]>> \o ByScore(SubSeq(hits, 1, b - 1) \o SubSeq(hits, b + 1, Len(hits)))

\* a plausible slip: the merged hits are sorted by score (the comment of line 136)
SearchPayloadSorted(query, results, max_results) ==
  [query |-> query, found |-> Len(results), results |-> Slice(ByScore(results), max_results)]

\* a plausible slip: the merged hits are returned uncut
SearchPayloadUncut(query, results, max_results) ==
  [query |-> query, found |-> Len(results), results |-> results]

\* json.dumps({"query": ..., "found": ..., "results": ...})
SearchPayload(query, results, max_results) ==
  [query |-> query, found |-> Len(results), results |-> Slice(results, max_results)]

\* the body of search_zim inside its try: [raised, response, calls]
SearchBody(query, zim_file, max_results, rnd) ==
  LET Searched(zim_path, found) ==
        [raised |-> found.raised,
         response |-> SearchPayload(query, found.results, max_results),
         calls |-> << [path |-> zim_path, limit |-> max_results,
                       raised |-> found.raised, via |-> found.via,
                       drawn |-> found.drawn, results |-> found.results] >>]
      Resolved(zim_path) ==
        IF zim_path = <<>>
        THEN [raised |-> FALSE,
              response |-> [error |-> <<"ZIM file not found: ", zim_file>>, results |-> <<>>],
              calls |-> <<>>]
        ELSE Searched(zim_path, _search_archive(zim_path, query, max_results, rnd, 0))
      Together(all) ==
        [raised |-> FALSE,
         response |-> SearchPayload(query, all.results, max_results),
         calls |-> all.calls]
  IN  IF zim_file # <<>>
      THEN Resolved(_resolve_zim_file(zim_file))
      ELSE IF ~dirExists
      THEN [raised |-> FALSE,
            response |-> [error |-> <<"ZIM data directory not found">>, results |-> <<>>],
            calls |-> <<>>]
      ELSE Together(SearchAll(Glob, 1, query, max_results, rnd, 0))

\* a plausible slip: search_zim without its try
SearchUnguarded(query, zim_file, max_results, rnd) ==
  SearchBody(query, zim_file, max_results, rnd)

\* search_zim(query, zim_file, max_results): the try around the body turns an
\* exception into an error object
search_zim(query, zim_file, max_results, rnd) ==
  Caught(SearchBody(query, zim_file, max_results, rnd),
         [error |-> <<"Search error: ", "exception">>, results |-> <<>>])

----------------------------------------------------------------------------
(* get_zim_suggestions *)

\* suggestion_searcher.suggest(query): the entries whose title holds the
\* query, in the archive's order
Suggested(archive, query) ==
  SelectSeq([i \in 1..Len(archive.entries) |-> i],
            LAMBDA i : Contains(LowerStr(archive.entries[i].title), LowerStr(query)))

\* for i in range(min(max_suggestions, estimated)): a result that cannot be
\* read ends the loop
RECURSIVE SuggestLoop(_, _, _, _, _)
SuggestLoop(archive, zim_path, matches, n, i) ==
  IF i >= n THEN <<>>
  ELSE LET suggestion == archive.entries[matches[i + 1]]
       IN  IF suggestion.unreadable THEN <<>>
           ELSE << [title |-> suggestion.title,
                    path |-> suggestion.path,
                    url |-> suggestion.path,
                    source_zim |-> SourceZim(zim_path)] >>
                \o SuggestLoop(archive, zim_path, matches, n, i + 1)

\* a plausible slip: no try around the suggestion search, so its exception
\* leaves the function
SuggestionsUnguarded(zim_path, query, max_suggestions) ==
  LET Asked(archive, matches) ==
        [raised |-> FALSE,
         results |-> SuggestLoop(archive, zim_path, matches,
                                 Min(max_suggestions, Len(matches)), 0)]
      Opened(archive) ==
        IF ~archive.searchable THEN [raised |-> TRUE, results |-> <<>>]
        ELSE Asked(archive, Suggested(archive, query))
  IN  IF ~Opens(zim_path) THEN [raised |-> TRUE, results |-> <<>>]
      ELSE Opened(Open(zim_path))

\* _get_suggestions_from_archive(zim_path, query, max_suggestions):
\* [raised, results]
_get_suggestions_from_archive(zim_path, query, max_suggestions) ==
  LET Asked(archive, matches) ==
        [raised |-> FALSE,
         results |-> SuggestLoop(archive, zim_path, matches,
                                 Min(max_suggestions, Len(matches)), 0)]
      Opened(archive) ==
        IF ~archive.searchable THEN [raised |-> FALSE, results |-> <<>>]
        ELSE Asked(archive, Suggested(archive, query))
  IN  IF ~Opens(zim_path) THEN [raised |-> TRUE, results |-> <<>>]
      ELSE Opened(Open(zim_path))

\* a plausible slip: each archive is asked for the whole budget
PerArchiveSuggestionsFull(max_suggestions) == max_suggestions

\* the limit each archive gets when all archives are asked (line 216)
PerArchiveSuggestions(max_suggestions) == max_suggestions \div 2

\* for zim_path in ZIM_DATA_PATH.glob("*.zim"): [results, calls]
RECURSIVE SuggestAll(_, _, _, _)
SuggestAll(paths, i, query, max_suggestions) ==
  LET Joined(found, call, rest) ==
        [results |-> (IF found.raised THEN <<>> ELSE found.results) \o rest.results,
         calls |-> <<call>> \o rest.calls]
      Asked(found) ==
        Joined(found,
               [path |-> paths[i], limit |-> PerArchiveSuggestions(max_suggestions),
                raised |-> found.raised, results |-> found.results],
               SuggestAll(paths, i + 1, query, max_suggestions))
  IN  IF i > Len(paths) THEN [results |-> <<>>, calls |-> <<>>]
      ELSE Asked(_get_suggestions_from_archive(paths[i], query,
                                               PerArchiveSuggestions(max_suggestions)))

\* json.dumps({"query": ..., "found": ..., "suggestions": ...})
SuggestPayload(query, suggestions, max_suggestions) ==
  [query |-> query, found |-> Len(suggestions),
   suggestions |-> Slice(suggestions, max_suggestions)]

\* the body of get_zim_suggestions inside its try: [raised, response, calls]
SuggestBody(query, zim_file, max_suggestions) ==
  LET Asked(zim_path, found) ==
        [raised |-> found.raised,
         response |-> SuggestPayload(query, found.results, max_suggestions),
         calls |-> << [path |-> zim_path, limit |-> max_suggestions,
                       raised |-> found.raised, results |-> found.results] >>]
      Resolved(zim_path) ==
        IF zim_path = <<>>
        THEN [raised |-> FALSE,
              response |-> [error |-> <<"ZIM file not found: ", zim_file>>,
                            suggestions |-> <<>>],
              calls |-> <<>>]
        ELSE Asked(zim_path, _get_suggestions_from_archive(zim_path, query, max_suggestions))
      Together(all) ==
        [raised |-> FALSE,
         response |-> SuggestPayload(query, all.results, max_suggestions),
         calls |-> all.calls]
  IN  IF zim_file # <<>>
      THEN Resolved(_resolve_zim_file(zim_file))
      ELSE IF ~dirExists
      THEN [raised |-> FALSE,
            response |-> [error |-> <<"ZIM data directory not found">>, suggestions |-> <<>>],
            calls |-> <<>>]
      ELSE Together(SuggestAll(Glob, 1, query, max_suggestions))

\* get_zim_suggestions(query, zim_file, max_suggestions)
get_zim_suggestions(query, zim_file, max_suggestions) ==
  Caught(SuggestBody(query, zim_file, max_suggestions),
         [error |-> <<"Error getting suggestions: ", "exception">>, suggestions |-> <<>>])

----------------------------------------------------------------------------
(* get_zim_entry *)

\* "This page redirects to: " and "\n\nContent:\n"
RedirectNotice == <<84,104,105,115,32,112,97,103,101,32,114,101,100,105,114,101,99,116,115,32,116,111,58,32>>
ContentHeader == <<10,10,67,111,110,116,101,110,116,58,10>>

\* a plausible slip: the identifier is looked up as a path first
EntryByPathFirst(archive, title) ==
  IF EntryByPath(archive, title) # 0 THEN EntryByPath(archive, title)
  ELSE IF \E i \in 1..Len(archive.entries) : archive.entries[i].title = title
  THEN CHOOSE i \in 1..Len(archive.entries) : archive.entries[i].title = title
  ELSE 0

\* archive.get_entry_by_title(title): the number of the entry, 0 when it raises
EntryByTitle(archive, title) ==
  IF \E i \in 1..Len(archive.entries) : archive.entries[i].title = title
  THEN CHOOSE i \in 1..Len(archive.entries) : archive.entries[i].title = title
  ELSE 0

\* md(entry.get_item().content...): get_item follows the redirects of the
\* entry to an item, at most `hops` of them: [raised, text]
RECURSIVE ItemText(_, _, _)
ItemText(archive, entry, hops) ==
  IF entry.redirect # 0
  THEN IF hops = 0 THEN [raised |-> TRUE, text |-> <<>>]
       ELSE ItemText(archive, archive.entries[entry.redirect], hops - 1)
  ELSE IF entry.unreadable THEN [raised |-> TRUE, text |-> <<>>]
  ELSE [raised |-> FALSE, text |-> entry.rendered]

\* a plausible slip: the redirects are followed to their end
RECURSIVE RedirectEntryLast(_, _, _)
RedirectEntryLast(archive, entry, hops) ==
  IF archive.entries[entry.redirect].redirect # 0 /\ hops > 1
  THEN RedirectEntryLast(archive, archive.entries[entry.redirect], hops - 1)
  ELSE archive.entries[entry.redirect]

\* entry.get_redirect_entry(), called once (line 357); hops is the number of
\* entries of the archive
RedirectEntry(archive, entry, hops) == archive.entries[entry.redirect]

\* _get_entry_from_archive(zim_path, title): [raised, result]
_get_entry_from_archive(zim_path, title) ==
  LET Read(archive, entry, item) ==
        IF item.raised
        THEN [raised |-> FALSE,
              result |-> [error |-> <<"Error reading entry content: ", "exception">>]]
        ELSE [raised |-> FALSE,
              result |-> [title |-> entry.title,
                          path |-> entry.path,
                          content |-> IF entry.redirect # 0
                                      THEN RedirectNotice
                                             \o RedirectEntry(archive, entry, Len(archive.entries)).title
                                             \o ContentHeader \o item.text
                                      ELSE item.text,
                          source_zim |-> SourceZim(zim_path)]]
      Entered(archive, entry) ==
        Read(archive, entry,
             IF entry.redirect # 0
             THEN ItemText(archive, RedirectEntry(archive, entry, Len(archive.entries)),
                           Len(archive.entries))
             ELSE ItemText(archive, entry, Len(archive.entries)))
      Found(archive, n) ==
        IF n = 0
        THEN [raised |-> FALSE,
              result |-> [error |-> <<"Entry not found in: ", title, Name(zim_path)>>]]
        ELSE Entered(archive, archive.entries[n])
      ByTitle(archive, by_title) ==
        Found(archive, IF by_title # 0 THEN by_title ELSE EntryByPath(archive, title))
      Opened(archive) == ByTitle(archive, EntryByTitle(archive, title))
  IN  IF ~Opens(zim_path) THEN [raised |-> TRUE, result |-> <<>>]
      ELSE Opened(Open(zim_path))

\* a plausible slip: the answer of the first archive that opens is returned,
\* whether it has content or not
RECURSIVE EntryAllFirstAnswer(_, _, _)
EntryAllFirstAnswer(paths, i, title) ==
  LET Joined(call, rest) ==
        [response |-> rest.response, calls |-> <<call>> \o rest.calls]
      Called(got, call) ==
        IF ~got.raised
        THEN [response |-> got.result, calls |-> <<call>>]
        ELSE Joined(call, EntryAllFirstAnswer(paths, i + 1, title))
      Got(got) ==
        Called(got, [path |-> paths[i], raised |-> got.raised, results |-> got.result])
  IN  IF i > Len(paths)
      THEN [response |-> [error |-> <<"Entry not found in any ZIM file: ", title>>],
            calls |-> <<>>]
      ELSE Got(_get_entry_from_archive(paths[i], title))

\* for zim_path in ZIM_DATA_PATH.glob("*.zim"): the first result with content
\* is returned: [response, calls]
RECURSIVE EntryAll(_, _, _)
EntryAll(paths, i, title) ==
  LET Joined(call, rest) ==
        [response |-> rest.response, calls |-> <<call>> \o rest.calls]
      Called(got, call) ==
        IF ~got.raised /\ "content" \in DOMAIN got.result
        THEN [response |-> got.result, calls |-> <<call>>]
        ELSE Joined(call, EntryAll(paths, i + 1, title))
      Got(got) ==
        Called(got, [path |-> paths[i], raised |-> got.raised, results |-> got.result])
  IN  IF i > Len(paths)
      THEN [response |-> [error |-> <<"Entry not found in any ZIM file: ", title>>],
            calls |-> <<>>]
      ELSE Got(_get_entry_from_archive(paths[i], title))

\* the body of get_zim_entry inside its try: [raised, response, calls]
EntryBody(title, zim_file) ==
  LET Got(zim_path, got) ==
        [raised |-> got.raised,
         response |-> got.result,
         calls |-> << [path |-> zim_path, raised |-> got.raised, results |-> got.result] >>]
      Resolved(zim_path) ==
        IF zim_path = <<>>
        THEN [raised |-> FALSE,
              response |-> [error |-> <<"ZIM file not found: ", zim_file>>],
              calls |-> <<>>]
        ELSE Got(zim_path, _get_entry_from_archive(zim_path, title))
      First(all) == [raised |-> FALSE, response |-> all.response, calls |-> all.calls]
  IN  IF zim_file # <<>>
      THEN Resolved(_resolve_zim_file(zim_file))
      ELSE IF ~dirExists
      THEN [raised |-> FALSE,
            response |-> [error |-> <<"ZIM data directory not found">>],
            calls |-> <<>>]
      ELSE First(EntryAll(Glob, 1, title))

\* get_zim_entry(title, zim_file)
get_zim_entry(title, zim_file) ==
  Caught(EntryBody(title, zim_file),
         [error |-> <<"Error retrieving entry: ", "exception">>])

----------------------------------------------------------------------------
(* list_zim_files *)

\* get_metadata_str(key) (lines 63-68): the text of the metadata, "" when
\* reading or decoding it raises
get_metadata_str(archive, key) ==
  IF archive.metadata[key].raises THEN ""
  ELSE IF ~archive.metadata[key].decodes THEN ""
  ELSE archive.metadata[key].text

\* x or y
Or(x, y) == IF x # "" THEN x ELSE y

\* the record of one file (lines 60-89): its metadata, or an error
FileInfo(zim_file) ==
  IF Opens(zim_file)
  THEN [filename |-> Name(zim_file),
        path |-> zim_file,
        title |-> Or(get_metadata_str(Open(zim_file), "Title"), Stem(Name(zim_file))),
        description |-> get_metadata_str(Open(zim_file), "Description"),
        creator |-> get_metadata_str(Open(zim_file), "Creator"),
        publisher |-> get_metadata_str(Open(zim_file), "Publisher"),
        date |-> get_metadata_str(Open(zim_file), "Date"),
        entry_count |-> Len(Open(zim_file).entries),
        article_count |-> article_count(Open(zim_file)),
        media_count |-> media_count(Open(zim_file))]
  ELSE [filename |-> Name(zim_file),
        path |-> zim_file,
        error |-> <<"Could not read ZIM file: ", "exception">>]

\* a plausible slip: list_zim_files does not ask whether the directory exists
ListUnchecked ==
  [raised |-> FALSE,
   response |-> [found |-> Len(Glob), files |-> [i \in 1..Len(Glob) |-> FileInfo(Glob[i])]],
   calls |-> [i \in 1..Len(Glob) |-> [path |-> Glob[i], raised |-> ~Opens(Glob[i])]]]

\* a plausible slip: no try around the reading of one file, so that a file
\* that cannot be opened makes the whole listing an error
ListStopAtFailure ==
  IF ~dirExists
  THEN [raised |-> FALSE,
        response |-> [error |-> <<"ZIM data directory not found">>, files |-> <<>>],
        calls |-> <<>>]
  ELSE IF \E i \in 1..Len(Glob) : ~Opens(Glob[i])
  THEN [raised |-> FALSE,
        response |-> [error |-> <<"Error listing ZIM files: ", "exception">>, files |-> <<>>],
        calls |-> [i \in 1..Len(Glob) |-> [path |-> Glob[i], raised |-> ~Opens(Glob[i])]]]
  ELSE [raised |-> FALSE,
        response |-> [found |-> Len(Glob),
                      files |-> [i \in 1..Len(Glob) |-> FileInfo(Glob[i])]],
        calls |-> [i \in 1..Len(Glob) |-> [path |-> Glob[i], raised |-> ~Opens(Glob[i])]]]

\* list_zim_files(): [raised, response, calls]
list_zim_files ==
  IF ~dirExists
  THEN [raised |-> FALSE,
        response |-> [error |-> <<"ZIM data directory not found">>, files |-> <<>>],
        calls |-> <<>>]
  ELSE [raised |-> FALSE,
        response |-> [found |-> Len(Glob),
                      files |-> [i \in 1..Len(Glob) |-> FileInfo(Glob[i])]],
        calls |-> [i \in 1..Len(Glob) |-> [path |-> Glob[i], raised |-> ~Opens(Glob[i])]]]

----------------------------------------------------------------------------
(* The state machine *)

\* the orders in which a directory that holds the files S may list them: the
\* order of glob is that of the file system, not that of the names
Orders(S) ==
  {p \o <<>> : p \in {q \in [1..Cardinality(S) -> S] :
                        \A i, j \in 1..Cardinality(S) : q[i] = q[j] => i = j}}

\* the listings glob may yield: any set of the names, in any order
Listings == UNION {Orders(S) : S \in SUBSET ZimNames}

Init ==
  /\ dirExists \in BOOLEAN
  /\ listing \in (IF dirExists THEN Listings ELSE {<<>>})
  /\ \E modes \in [ZimNames -> ArchiveModes] :
       disk = [f \in Files |-> IF f = OutsideFile THEN "indexed" ELSE modes[Name(f)]]
  /\ op = "init"
  /\ args = <<>>
  /\ response = <<>>
  /\ raised = FALSE
  /\ calls = <<>>

\* the public function `name` is called with the arguments a and returns r
Returns(name, a, r) ==
  /\ op' = name
  /\ args' = a
  /\ response' = r.response
  /\ raised' = r.raised
  /\ calls' = r.calls
  /\ UNCHANGED <<dirExists, listing, disk>>

SearchZim ==
  /\ op = "init"
  /\ \E query \in Queries, zim_file \in ZimFileArgs, max_results \in 0..MaxResults,
     rnd \in Streams :
       Returns("search_zim",
               [query |-> query, zim_file |-> zim_file,
                max_results |-> max_results, rnd |-> rnd],
               search_zim(query, zim_file, max_results, rnd))

GetZimSuggestions ==
  /\ op = "init"
  /\ \E query \in Queries, zim_file \in ZimFileArgs, max_suggestions \in 0..MaxResults :
       Returns("get_zim_suggestions",
               [query |-> query, zim_file |-> zim_file, max_suggestions |-> max_suggestions],
               get_zim_suggestions(query, zim_file, max_suggestions))

GetZimEntry ==
  /\ op = "init"
  /\ \E title \in EntryArgs, zim_file \in ZimFileArgs :
       Returns("get_zim_entry", [title |-> title, zim_file |-> zim_file],
               get_zim_entry(title, zim_file))

ListZimFiles ==
  /\ op = "init"
  /\ Returns("list_zim_files", <<>>, list_zim_files)

Next == SearchZim \/ GetZimSuggestions \/ GetZimEntry \/ ListZimFiles

Spec == Init /\ [][Next]_vars

----------------------------------------------------------------------------
(* The language filter on its own: _is_english_content applied to a title  *)
(* and a content                                                           *)

\* n times the letter "x"
Pad(n) == [i \in 1..n |-> 120]

\* "cet article" and "本文", two of the non-English phrases
P_CetArticle == <<99,101,116,32,97,114,116,105,99,108,101>>
P_BenWen == <<26412,25991>>

\* '', 'Systemd', 'Systemd (Deutsch)', 'SYSFS (DEUTSCH)', 'Deutsch',
\* '(РУССКИЙ) Systemd', 'Systemd (ČEŠTINA)', '(ΕΛΛΗΝΙΚΆ)', 'systemd (简体中文)',
\* '(PolsKi)' with the Kelvin sign U+212A for its k, '(İtaliano)' with the
\* dotted capital U+0130, 'ΟΔΟΣ (ΕΛΛΗΝΙΚΆ)' with a final sigma
FT_Plain == <<83,121,115,116,101,109,100>>
FT_Marker == <<83,121,115,116,101,109,100,32,40,68,101,117,116,115,99,104,41>>
FT_MarkerUpper == <<83,89,83,70,83,32,40,68,69,85,84,83,67,72,41>>
FT_Bare == <<68,101,117,116,115,99,104>>
FT_Russian == <<40,1056,1059,1057,1057,1050,1048,1049,41,32,83,121,115,116,101,109,100>>
FT_Czech == <<83,121,115,116,101,109,100,32,40,268,69,352,84,73,78,65,41>>
FT_Greek == <<40,917,923,923,919,925,921,922,902,41>>
FT_Chinese == <<115,121,115,116,101,109,100,32,40,31616,20307,20013,25991,41>>
FT_Kelvin == <<40,80,111,108,115,8490,105,41>>
FT_DottedI == <<40,304,116,97,108,105,97,110,111,41>>
FT_Sigma == <<927,916,927,931,32,40,917,923,923,919,925,921,922,902,41>>
FilterTitles ==
  { <<>>, FT_Plain, FT_Marker, FT_MarkerUpper, FT_Bare, FT_Russian, FT_Czech,
    FT_Greek, FT_Chinese, FT_Kelvin, FT_DottedI, FT_Sigma }

\* 'systemd is an init system', 'cet article explique', 'CET ARTICLE EXPLIQUE',
\* 'Partikel physics', 'ESTE ARTÍCULO', 'ДАННАЯ СТАТЬЯ', '이 문서는'
FC_Plain == <<115,121,115,116,101,109,100,32,105,115,32,97,110,32,105,110,105,116,32,115,121,115,116,101,109>>
FC_Phrase == <<99,101,116,32,97,114,116,105,99,108,101,32,101,120,112,108,105,113,117,101>>
FC_PhraseUpper == <<67,69,84,32,65,82,84,73,67,76,69,32,69,88,80,76,73,81,85,69>>
FC_InWord == <<80,97,114,116,105,107,101,108,32,112,104,121,115,105,99,115>>
FC_Spanish == <<69,83,84,69,32,65,82,84,205,67,85,76,79>>
FC_Cyrillic == <<1044,1040,1053,1053,1040,1071,32,1057,1058,1040,1058,1068,1071>>
FC_Korean == <<51060,32,47928,49436,45716>>

\* the contents the filter is applied to: the texts above, a phrase that
\* ends at character 200, is cut by it, or begins after it, and a phrase that
\* ends at character 200 behind a U+0130, whose lower case is two characters
FilterContents ==
  { <<>>, FC_Plain, FC_Phrase, FC_PhraseUpper, FC_InWord, FC_Spanish, FC_Cyrillic,
    FC_Korean,
    <<304>> \o Pad(ContentCheckLen - Len(P_CetArticle) - 1) \o P_CetArticle,
    Pad(ContentCheckLen - Len(P_CetArticle)) \o P_CetArticle,
    Pad(ContentCheckLen - Len(P_CetArticle) + 1) \o P_CetArticle,
    Pad(ContentCheckLen) \o P_CetArticle,
    Pad(ContentCheckLen - 1) \o P_BenWen }

FilterInit ==
  /\ dirExists = FALSE
  /\ listing = <<>>
  /\ disk = [f \in Files |-> "indexed"]
  /\ op = "init"
  /\ args \in [title : FilterTitles, content : FilterContents]
  /\ response = <<>>
  /\ raised = FALSE
  /\ calls = <<>>

\* _is_english_content(title, content) is called and returns
IsEnglishContent ==
  /\ op = "init"
  /\ op' = "_is_english_content"
  /\ response' = _is_english_content(args.title, args.content)
  /\ UNCHANGED <<args, raised, calls, dirExists, listing, disk>>

FilterSpec == FilterInit /\ [][IsEnglishContent]_vars

----------------------------------------------------------------------------
(* _search_archive on its own, on an archive smaller and on one larger than
   the sample budget *)

ScanInit ==
  /\ dirExists = FALSE
  /\ listing = <<>>
  /\ \E f \in {BigFile, OutsideFile} :
        /\ disk \in [{f} -> ArchiveModes]
        /\ args \in [zim_path : {f}, query : Queries,
                     max_results : 0..MaxResults, rnd : Streams]
  /\ op = "init"
  /\ response = <<>>
  /\ raised = FALSE
  /\ calls = <<>>

\* one call of _search_archive(zim_path, query, max_results)
SearchArchive ==
  /\ op = "init"
  /\ \E found \in {_search_archive(args.zim_path, args.query, args.max_results, args.rnd, 0)} :
        /\ op' = "_search_archive"
        /\ response' = found.results
        /\ raised' = found.raised
        /\ calls' = << [path |-> args.zim_path, limit |-> args.max_results,
                        raised |-> found.raised, via |-> found.via,
                        drawn |-> found.drawn, results |-> found.results] >>
        /\ UNCHANGED <<dirExists, listing, disk, args>>

ScanSpec == ScanInit /\ [][SearchArchive]_vars

----------------------------------------------------------------------------
(* The lifetime of the archive handles during one call.  No function closes
   an archive: an archive object is held by what refers to it, and its file
   is closed when the last reference goes (reference counting, as in the
   CPython the libzim binding is built for).  Every value that leaves the
   functions is text, and the entries, items and searches made from an
   archive are locals of the frame that holds the archive, so the holders of
   an archive are: "frame", the local `archive` of the per-archive function
   that opened it; "traceback", the exception that left that function, whose
   traceback keeps the frame; "stack", the result of Archive() in
   list_zim_files before it is assigned; "cell", the variable `archive` of
   list_zim_files, which the helper get_metadata_str shares.  In this
   machine op is "init", "running" (the public function runs between two
   archives), "in_archive" (a per-archive function has opened its archive),
   "except" (an exception has left the per-archive function and the except
   clause of the public function runs), "opened" (list_zim_files has made an
   archive and not yet assigned it), "in_list" (list_zim_files reads the
   archive) or "returned"; calls holds one record per archive tried so far,
   with its holders.  An archive file is "broken" (Archive() raises),
   "damaged" (it opens, and every read of it raises) or "indexed". *)

\* the public functions that open archives
Functions == {"search_zim", "get_zim_suggestions", "get_zim_entry", "list_zim_files"}

\* the archives a call goes through: the named one if it resolves, or the
\* archives of the data directory
Targets ==
  IF args.zim_file = <<>> THEN Glob
  ELSE IF _resolve_zim_file(args.zim_file) = <<>> THEN <<>>
  ELSE << _resolve_zim_file(args.zim_file) >>

\* a plausible slip: what holds an archive is kept (in a module-level cache,
\* say) when the frame ends
DroppedNone(cs, holder) == cs

\* one holder of archives goes (a frame ends, an exception is deleted, a
\* variable is bound anew): the archives it held lose it
Dropped(cs, holder) ==
  [i \in 1..Len(cs) |-> [cs[i] EXCEPT !.holders = @ \ {holder}]]

\* the states of an archive file in this machine
HandleModes == {"broken", "damaged", "indexed"}

HandleInit ==
  /\ dirExists = TRUE
  /\ listing \in Listings
  /\ disk \in [Files -> HandleModes]
  /\ op = "init"
  /\ args \in [fn : Functions, zim_file : {<<>>, <<"a.zim">>}, present : BOOLEAN]
  /\ args.fn = "list_zim_files" => args.zim_file = <<>>
  /\ args.fn # "get_zim_entry" => ~args.present
  /\ response = <<>>
  /\ raised = FALSE
  /\ calls = <<>>

\* get_zim_entry has got the entry from the archive it tried last:
\* `if "content" in result_data: return result`
EntryFound ==
  /\ args.fn = "get_zim_entry"
  /\ args.present
  /\ Len(calls) > 0
  /\ ~calls[Len(calls)].raised
  /\ disk[calls[Len(calls)].path] = "indexed"

\* the public function is about to try the next archive
AtNextArchive ==
  /\ op \in {"init", "running"}
  /\ Len(calls) < Len(Targets)
  /\ ~EntryFound

\* the archive file the step is about
Target == Targets[Len(calls) + 1]
Current == calls[Len(calls)].path

\* archive = Archive(str(zim_path)) succeeds in a per-archive function
ArchiveOpens ==
  /\ AtNextArchive
  /\ args.fn # "list_zim_files"
  /\ Opens(Target)
  /\ op' = "in_archive"
  /\ calls' = Append(calls, [path |-> Target, raised |-> FALSE, holders |-> {"frame"}])
  /\ UNCHANGED <<dirExists, listing, disk, args, response, raised>>

\* Archive(str(zim_path)) raises in a per-archive function: no handle is
\* opened, and the exception reaches an except clause of the public function
ArchiveOpenFails ==
  /\ AtNextArchive
  /\ args.fn # "list_zim_files"
  /\ ~Opens(Target)
  /\ op' = "except"
  /\ calls' = Append(calls, [path |-> Target, raised |-> TRUE, holders |-> {}])
  /\ UNCHANGED <<dirExists, listing, disk, args, response, raised>>

\* an exception leaves the per-archive function after the archive was
\* opened.  Only _search_archive reads the archive outside a try
\* (archive.has_fulltext_index, line 255); _get_suggestions_from_archive and
\* _get_entry_from_archive catch what the archive raises
RaisesAfterOpen == args.fn = "search_zim" /\ disk[Current] = "damaged"

\* the per-archive function returns its result, which holds text only: its
\* frame ends
ArchiveReturns ==
  /\ op = "in_archive"
  /\ ~RaisesAfterOpen
  /\ op' = "running"
  /\ calls' = Dropped(calls, "frame")
  /\ UNCHANGED <<dirExists, listing, disk, args, response, raised>>

\* the exception leaves _search_archive: the frame, and `archive` in it, is
\* kept by the traceback of the exception while the except clause of
\* search_zim runs
ArchiveRaises ==
  /\ op = "in_archive"
  /\ RaisesAfterOpen
  /\ op' = "except"
  /\ calls' = [calls EXCEPT ![Len(calls)].raised = TRUE,
                            ![Len(calls)].holders = {"traceback"}]
  /\ UNCHANGED <<dirExists, listing, disk, args, response, raised>>

\* the except clause of the public function ends (`continue` in the loop,
\* the error payload for a named archive): the exception is deleted
ExceptEnds ==
  /\ op = "except"
  /\ op' = "running"
  /\ calls' = Dropped(calls, "traceback")
  /\ UNCHANGED <<dirExists, listing, disk, args, response, raised>>

\* list_zim_files, line 61: Archive(str(zim_file)) returns the archive while
\* `archive` still refers to the archive of an earlier turn
ListOpens ==
  /\ AtNextArchive
  /\ args.fn = "list_zim_files"
  /\ Opens(Target)
  /\ op' = "opened"
  /\ calls' = Append(calls, [path |-> Target, raised |-> FALSE, holders |-> {"stack"}])
  /\ UNCHANGED <<dirExists, listing, disk, args, response, raised>>

\* list_zim_files, line 61: Archive(str(zim_file)) raises; the except clause
\* of the turn adds an error record, and `archive` stays as it is
ListOpenFails ==
  /\ AtNextArchive
  /\ args.fn = "list_zim_files"
  /\ ~Opens(Target)
  /\ op' = "running"
  /\ calls' = Append(calls, [path |-> Target, raised |-> TRUE, holders |-> {}])
  /\ UNCHANGED <<dirExists, listing, disk, args, response, raised>>

\* list_zim_files, line 61: `archive = ...` binds the variable anew: the
\* archive of the earlier turn loses it
ListBinds ==
  /\ op = "opened"
  /\ op' = "in_list"
  /\ calls' = [Dropped(calls, "cell") EXCEPT ![Len(calls)].holders = {"cell"}]
  /\ UNCHANGED <<dirExists, listing, disk, args, response, raised>>

\* list_zim_files, lines 63-89: the record of the file is made, or reading
\* archive.entry_count raises and the except clause of the turn makes an
\* error record; `archive` stays bound either way
ListReads ==
  /\ op = "in_list"
  /\ op' = "running"
  /\ calls' = [calls EXCEPT ![Len(calls)].raised = (disk[Current] = "damaged")]
  /\ UNCHANGED <<dirExists, listing, disk, args, response, raised>>

\* the public function returns: after the last archive, or, for
\* get_zim_entry, with the entry of the archive just read.  Its frame ends,
\* and with it the variable `archive` of list_zim_files and the helper that
\* shares it
FunctionReturns ==
  /\ op \in {"init", "running"}
  /\ Len(calls) = Len(Targets) \/ EntryFound
  /\ op' = "returned"
  /\ calls' = Dropped(calls, "cell")
  /\ UNCHANGED <<dirExists, listing, disk, args, response, raised>>

HandleNext ==
  \/ ArchiveOpens \/ ArchiveOpenFails \/ ArchiveReturns \/ ArchiveRaises
  \/ ExceptEnds \/ ListOpens \/ ListOpenFails \/ ListBinds \/ ListReads
  \/ FunctionReturns

HandleSpec == HandleInit /\ [][HandleNext]_vars

----------------------------------------------------------------------------
(* _resolve_zim_file on its own, in a data directory that also holds a file
   without extension and a file whose name ends in ".zim.zim" *)

\* the files the data directory may hold, in name order
ResolveNames == <<"a.zim", "a.zim.zim", "b", "b.zim">>

\* the identifiers a call may carry: file names with and without extension,
\* absolute paths, and relative paths that climb out of the data directory
ClimbOut == <<"..", "..", "..", "..", "mnt">>
ResolveArgs ==
  { <<"a.zim">>, <<"a">>, <<"b">>, <<"b.zim">>, <<"nope">>,
    Join(ZIM_DATA_PATH, <<"b.zim">>), OutsideFile, <<"/", "mnt", "nope.zim">>,
    <<"..">>, Join(ClimbOut, <<"x.zim">>), Join(ClimbOut, <<"x">>) }

\* the listings of a directory that holds any of these files, in any order
ResolveListings == UNION {Orders(S) : S \in SUBSET {ResolveNames[i] : i \in 1..Len(ResolveNames)}}

ResolveInit ==
  /\ dirExists \in BOOLEAN
  /\ listing \in (IF dirExists THEN ResolveListings ELSE {<<>>})
  /\ disk = [f \in Files |-> "indexed"]
  /\ op = "init"
  /\ args \in [zim_file : ResolveArgs]
  /\ response = <<>>
  /\ raised = FALSE
  /\ calls = <<>>

\* one call of _resolve_zim_file(zim_file); <<>> is None
ResolveZimFile ==
  /\ op = "init"
  /\ op' = "_resolve_zim_file"
  /\ response' = _resolve_zim_file(args.zim_file)
  /\ UNCHANGED <<dirExists, listing, disk, args, raised, calls>>

ResolveSpec == ResolveInit /\ [][ResolveZimFile]_vars

----------------------------------------------------------------------------
(* list_zim_files on its own, in a data directory that also holds files the
   pattern "*.zim" does not match *)

ListInit ==
  /\ dirExists = TRUE
  /\ listing \in ResolveListings
  /\ \E modes \in [{ResolveNames[i] : i \in 1..Len(ResolveNames)} -> ArchiveModes] :
       disk = [f \in Files |-> IF f = OutsideFile THEN "indexed" ELSE modes[Name(f)]]
  /\ op = "init"
  /\ args = <<>>
  /\ response = <<>>
  /\ raised = FALSE
  /\ calls = <<>>

ListSpec == ListInit /\ [][ListZimFiles]_vars

----------------------------------------------------------------------------
(* interactive_mode of the tool clients (wikid_server/tool_client.py and
   qwen_server/tool_client.py, the same loop in both).  In this machine op is
   the place the function has reached: "top" (outside the inner try: the
   lines before the loop, `while True:`, `try:` and the `continue` of a
   finished turn), "prompt" (at input()), "read" (input() has returned a line
   and the turn has not acted on it yet), "quitting" (at `break`, 'Goodbye!'
   printed), "toggled" (stream inverted, at the print after it), "chatting"
   (inside chat_with_tools, which waits for the model server), "goodbye" (in
   the clause `except KeyboardInterrupt`), "failing" (in the clause `except
   Exception`) and "ended" (the function was left).  args holds the stream
   argument of the call; response holds the streaming flag as it is now, the
   events input() has delivered so far (a line, Ctrl+C or the end of the
   input) and the way the loop ended; calls holds one record per call of
   chat_with_tools, with the message and the stream argument it was given and
   its outcome ("running" while it has not ended); raised says that
   KeyboardInterrupt left interactive_mode. *)

\* str.isspace() of one code point
IsSpace(c) ==
  \/ c \in 9..13 \/ c \in 28..32 \/ c \in {133, 160, 5760}
  \/ c \in 8192..8202 \/ c \in {8232, 8233, 8239, 8287, 12288}

\* s.strip()
RECURSIVE Strip(_)
Strip(s) ==
  IF s = <<>> THEN s
  ELSE IF IsSpace(s[1]) THEN Strip(SubSeq(s, 2, Len(s)))
  ELSE IF IsSpace(s[Len(s)]) THEN Strip(SubSeq(s, 1, Len(s) - 1))
  ELSE s

\* 'quit', 'exit', '/tools', '/stream'
W_quit == <<113,117,105,116>>
W_exit == <<101,120,105,116>>
W_tools == <<47,116,111,111,108,115>>
W_stream == <<47,115,116,114,101,97,109>>

\* the lines input() may return: "quit", " EXIT ", "Quit", "/tools",
\* "/stream", "/stream " (a blank after it), "/STREAM", "", " \t", " hi",
\* "quit now"
Lines ==
  { W_quit, <<32,69,88,73,84,32>>, <<81,117,105,116>>, W_tools, W_stream,
    W_stream \o <<32>>, <<47,83,84,82,69,65,77>>, <<>>, <<32,9>>,
    <<32,104,105>>, W_quit \o <<32,110,111,119>> }

\* the loop reads at most MaxTurns events
MaxTurns == 3

\* the branch one turn of the loop takes on a line (lines 268-286)
Branch(line) ==
  IF LowerStr(Strip(line)) \in {W_quit, W_exit} THEN "quit"
  ELSE IF Strip(line) = W_tools THEN "tools"
  ELSE IF Strip(line) = W_stream THEN "stream"
  ELSE IF Strip(line) = <<>> THEN "empty"
  ELSE "chat"

\* the outcomes of one call of chat_with_tools: it returns, it raises an
\* exception (the server cannot be reached, say), or Ctrl+C interrupts it
ChatOutcomes == {"returned", "raised", "interrupted"}

InteractiveInit ==
  /\ dirExists = FALSE
  /\ listing = <<>>
  /\ disk = <<>>
  /\ op = "top"
  /\ args \in [stream : BOOLEAN]
  /\ response = [stream |-> args.stream, events |-> <<>>, end |-> "running"]
  /\ raised = FALSE
  /\ calls = <<>>

\* the loop enters the inner try and calls input()
EnterTurn ==
  /\ op = "top"
  /\ op' = "prompt"
  /\ UNCHANGED <<dirExists, listing, disk, args, response, raised, calls>>

AtPrompt == op = "prompt" /\ Len(response.events) < MaxTurns

\* input() returns a line
ReadLine ==
  /\ AtPrompt
  /\ \E line \in Lines :
       response' = [response EXCEPT !.events = Append(@, [line |-> line])]
  /\ op' = "read"
  /\ UNCHANGED <<dirExists, listing, disk, args, raised, calls>>

\* the line the turn works on
LastLine == response.events[Len(response.events)].line

\* the line is 'quit' or 'exit': 'Goodbye!' is printed
ReadQuit ==
  /\ op = "read"
  /\ Branch(LastLine) = "quit"
  /\ op' = "quitting"
  /\ UNCHANGED <<dirExists, listing, disk, args, response, raised, calls>>

\* break after 'quit' or 'exit': the function returns
Break ==
  /\ op = "quitting"
  /\ response' = [response EXCEPT !.end = "quit"]
  /\ op' = "ended"
  /\ UNCHANGED <<dirExists, listing, disk, args, raised, calls>>

\* the line is '/tools' (the tools are printed) or empty: continue
ReadNothing ==
  /\ op = "read"
  /\ Branch(LastLine) \in {"tools", "empty"}
  /\ op' = "top"
  /\ UNCHANGED <<dirExists, listing, disk, args, response, raised, calls>>

\* the line is '/stream': stream = not stream
ReadStream ==
  /\ op = "read"
  /\ Branch(LastLine) = "stream"
  /\ response' = [response EXCEPT !.stream = ~@]
  /\ op' = "toggled"
  /\ UNCHANGED <<dirExists, listing, disk, args, raised, calls>>

\* the new mode is printed: continue
Continue ==
  /\ op = "toggled"
  /\ op' = "top"
  /\ UNCHANGED <<dirExists, listing, disk, args, response, raised, calls>>

\* the line is a message: chat_with_tools is called with it and the flag of
\* the moment
ReadMessage ==
  /\ op = "read"
  /\ Branch(LastLine) = "chat"
  /\ calls' = Append(calls, [message |-> Strip(LastLine), stream |-> response.stream,
                             outcome |-> "running"])
  /\ op' = "chatting"
  /\ UNCHANGED <<dirExists, listing, disk, args, response, raised>>

\* chat_with_tools ends: when it returns the loop goes on, when Ctrl+C
\* interrupts it the inner except clause is entered, and when it raises an
\* exception the except clause around the loop is
ChatEnds ==
  /\ op = "chatting"
  /\ \E outcome \in ChatOutcomes :
       /\ calls' = [calls EXCEPT ![Len(calls)].outcome = outcome]
       /\ op' = CASE outcome = "returned" -> "top"
                  [] outcome = "raised" -> "failing"
                  [] OTHER -> "goodbye"
  /\ UNCHANGED <<dirExists, listing, disk, args, response, raised>>

\* Ctrl+C at input(): KeyboardInterrupt, the inner except clause is entered
InputInterrupted ==
  /\ AtPrompt
  /\ response' = [response EXCEPT !.events = Append(@, [key |-> "ctrl-c"])]
  /\ op' = "goodbye"
  /\ UNCHANGED <<dirExists, listing, disk, args, raised, calls>>

\* the input is at its end: input() raises EOFError, which the except clause
\* around the loop catches
InputEnds ==
  /\ AtPrompt
  /\ response' = [response EXCEPT !.events = Append(@, [key |-> "eof"])]
  /\ op' = "failing"
  /\ UNCHANGED <<dirExists, listing, disk, args, raised, calls>>

\* Ctrl+C while the function runs its own lines: inside the inner try (a line
\* was read, or the flag was inverted) the inner except clause is entered;
\* anywhere else (outside the inner try, at `break`, inside an except clause)
\* KeyboardInterrupt leaves interactive_mode
LoopInterrupted ==
  /\ op \in {"top", "read", "toggled", "quitting", "goodbye", "failing"}
  /\ IF op \in {"read", "toggled"}
     THEN /\ op' = "goodbye"
          /\ UNCHANGED <<response, raised>>
     ELSE /\ op' = "ended"
          /\ response' = [response EXCEPT !.end = "KeyboardInterrupt"]
          /\ raised' = TRUE
  /\ UNCHANGED <<dirExists, listing, disk, args, calls>>

\* except KeyboardInterrupt: '\nGoodbye!' is printed, break
SaysGoodbye ==
  /\ op = "goodbye"
  /\ response' = [response EXCEPT !.end = "interrupt"]
  /\ op' = "ended"
  /\ UNCHANGED <<dirExists, listing, disk, args, raised, calls>>

\* except Exception: 'Error in interactive mode' is printed, the function
\* returns
ReportsError ==
  /\ op = "failing"
  /\ response' = [response EXCEPT !.end = "error"]
  /\ op' = "ended"
  /\ UNCHANGED <<dirExists, listing, disk, args, raised, calls>>

InteractiveNext ==
  \/ EnterTurn \/ ReadLine \/ ReadQuit \/ Break \/ ReadNothing \/ ReadStream
  \/ Continue \/ ReadMessage \/ ChatEnds \/ InputInterrupted \/ InputEnds
  \/ LoopInterrupted \/ SaysGoodbye \/ ReportsError

InteractiveSpec == InteractiveInit /\ [][InteractiveNext]_vars

----------------------------------------------------------------------------
(* chat_with_tools of the tool clients.  The text of a reply is given by the
   <tool_call> blocks it holds, in order.  In this machine op is "init",
   "replied" (the first reply is read), "tools" (the tool calls are being
   executed), "returned" or "raised"; args holds the client (wikid_server or
   qwen_server), the stream argument and the two replies of the server;
   response holds the local variables of the function: messages, tool_calls
   and the number of tool calls executed so far; calls holds what the function
   did to the outside, in order: the completion requests it sent, with their
   messages, and the tools it executed. *)

\* a reply holds at most MaxBlocks <tool_call> blocks
MaxBlocks == 2

\* The name of a tool call as the JSON gives it: a string, or a value that
\* cannot be hashed (a list or an object).
NameText(text) == [hashable |-> TRUE, text |-> text]
NameList == [hashable |-> FALSE, text |-> "['x']"]

\* The arguments of a tool call as the JSON gives them: an object with the
\* keys `keys`, or a list, which is no mapping.
ArgsObject(keys) == [mapping |-> TRUE, keys |-> keys]
ArgsList == [mapping |-> FALSE, keys |-> {}]

\* A <tool_call> block: whether json.loads returns its object (parses),
\* whether json.loads raises something that is no JSONDecodeError (raises: an
\* integer of more than 4300 digits, a nesting too deep), and the name and the
\* arguments of the object, <<>> when it has no such key.
Block(parses, raises, name, arguments) ==
  [parses |-> parses, raises |-> raises, name |-> name, arguments |-> arguments]

\* The blocks: text that is no JSON; JSON that json.loads cannot read; a call
\* of get_current_time with an empty object as arguments, with no arguments,
\* with a list as arguments and with a key the tool does not take; a call of
\* search_zim, which wikid_server alone has; a call of calculate_math, which
\* qwen_server alone has; a call of a tool that does not exist; a call
\* without name; a call whose name is a list.
Blocks ==
  { Block(FALSE, FALSE, <<>>, <<>>),
    Block(FALSE, TRUE, <<>>, <<>>),
    Block(TRUE, FALSE, <<NameText("get_current_time")>>, <<ArgsObject({})>>),
    Block(TRUE, FALSE, <<NameText("get_current_time")>>, <<>>),
    Block(TRUE, FALSE, <<NameText("get_current_time")>>, <<ArgsList>>),
    Block(TRUE, FALSE, <<NameText("get_current_time")>>, <<ArgsObject({"tz"})>>),
    Block(TRUE, FALSE, <<NameText("search_zim")>>, <<ArgsObject({"query"})>>),
    Block(TRUE, FALSE, <<NameText("calculate_math")>>, <<ArgsObject({"expression"})>>),
    Block(TRUE, FALSE, <<NameText("nosuch")>>, <<ArgsObject({})>>),
    Block(TRUE, FALSE, <<>>, <<ArgsObject({})>>),
    Block(TRUE, FALSE, <<NameList>>, <<ArgsObject({})>>) }

\* the first replies: up to MaxBlocks blocks each; the second replies: no
\* block, or a call of get_current_time
Replies == UNION {[1..n -> Blocks] : n \in 0..MaxBlocks}
SecondReplies ==
  { <<>>, <<Block(TRUE, FALSE, <<NameText("get_current_time")>>, <<ArgsObject({})>>)>> }

\* the tools execute_tool_call knows, by client
tool_functions(client) ==
  IF client = "wikid_server"
  THEN {"search_zim", "get_zim_entry", "list_zim_files", "get_zim_suggestions",
        "get_current_time"}
  ELSE {"get_current_weather", "calculate_math", "get_current_time"}

\* the parameters of each tool function, and those without default
Parameters(tool) ==
  CASE tool = "search_zim" -> {"query", "zim_file", "max_results"}
    [] tool = "get_zim_entry" -> {"title", "zim_file"}
    [] tool = "list_zim_files" -> {}
    [] tool = "get_zim_suggestions" -> {"query", "zim_file", "max_suggestions"}
    [] tool = "get_current_time" -> {"timezone"}
    [] tool = "get_current_weather" -> {"location", "unit"}
    [] tool = "calculate_math" -> {"expression"}
Required(tool) ==
  CASE tool = "search_zim" -> {"query"}
    [] tool = "get_zim_entry" -> {"title"}
    [] tool = "list_zim_files" -> {}
    [] tool = "get_zim_suggestions" -> {"query"}
    [] tool = "get_current_time" -> {}
    [] tool = "get_current_weather" -> {"location"}
    [] tool = "calculate_math" -> {"expression"}

\* func(**arguments) binds: the arguments are a mapping, every key is a
\* parameter and every parameter without default is given; otherwise the
\* call raises TypeError
Binds(tool, arguments) ==
  /\ arguments.mapping
  /\ arguments.keys \subseteq Parameters(tool)
  /\ Required(tool) \subseteq arguments.keys

\* the loop of parse_tool_calls_from_text over the matches i.. of the pattern:
\* [raised, tool_calls].  The matches are numbered from 0; a match that is no
\* JSON is left out (json.JSONDecodeError is caught); any other exception of
\* json.loads leaves the function, whatever was parsed before.
RECURSIVE ParseFrom(_, _)
ParseFrom(blocks, i) ==
  LET Call(b) ==
        [id |-> i - 1,
         name |-> IF b.name = <<>> THEN NameText("") ELSE b.name[1],
         arguments |-> IF b.arguments = <<>> THEN ArgsObject({}) ELSE b.arguments[1]]
      Then(rest) ==
        IF rest.raised THEN rest
        ELSE [raised |-> FALSE,
              tool_calls |-> (IF blocks[i].parses THEN <<Call(blocks[i])>> ELSE <<>>)
                             \o rest.tool_calls]
  IN  IF i > Len(blocks) THEN [raised |-> FALSE, tool_calls |-> <<>>]
      ELSE IF blocks[i].raises THEN [raised |-> TRUE, tool_calls |-> <<>>]
      ELSE Then(ParseFrom(blocks, i + 1))

\* parse_tool_calls_from_text(content): [raised, tool_calls]
parse_tool_calls_from_text(content) == ParseFrom(content, 1)

\* execute_tool_call(tool_name, arguments) of a client: [raised, result]; the
\* test `tool_name not in tool_functions` stands outside the try and raises
\* TypeError for a name that cannot be hashed; a TypeError of func(**arguments)
\* is caught
execute_tool_call(client, tool_name, arguments) ==
  IF ~tool_name.hashable THEN [raised |-> TRUE, result |-> <<"TypeError">>]
  ELSE IF tool_name.text \notin tool_functions(client)
  THEN [raised |-> FALSE, result |-> <<"Error: Unknown tool '", tool_name.text, "'">>]
  ELSE IF ~Binds(tool_name.text, arguments)
  THEN [raised |-> FALSE,
        result |-> <<"Error executing tool '", tool_name.text, "': ", "exception">>]
  ELSE [raised |-> FALSE, result |-> <<"result of ", tool_name.text>>]

\* messages as the function builds it first
Original ==
  IF args.client = "wikid_server"
  THEN << [role |-> "system"], [role |-> "user"] >>
  ELSE << [role |-> "user"] >>

ChatInit ==
  /\ dirExists = FALSE
  /\ listing = <<>>
  /\ disk = <<>>
  /\ op = "init"
  /\ args \in [client : {"wikid_server", "qwen_server"}, stream : BOOLEAN,
               first : Replies, second : SecondReplies]
  /\ response = [messages |-> Original, tool_calls |-> <<>>, executed |-> 0]
  /\ raised = FALSE
  /\ calls = <<>>

\* the n-th call of client.chat.completions.create, with the messages as they
\* are now; it returns a reply or fails
Request(n, failed) ==
  [kind |-> "request", n |-> n, messages |-> response.messages, stream |-> args.stream,
   failed |-> failed]

\* the first request is sent and its reply read
FirstRequest ==
  /\ op = "init"
  /\ calls' = Append(calls, Request(1, FALSE))
  /\ op' = "replied"
  /\ UNCHANGED <<dirExists, listing, disk, args, response, raised>>

\* the first request is sent and fails: the exception leaves the function
FirstRequestFails ==
  /\ op = "init"
  /\ calls' = Append(calls, Request(1, TRUE))
  /\ op' = "raised"
  /\ raised' = TRUE
  /\ UNCHANGED <<dirExists, listing, disk, args, response>>

\* tool_calls = parse_tool_calls_from_text(assistant_content): an exception
\* of the parser leaves the function; without tool calls the function
\* returns, otherwise the assistant message is appended
ParseReply ==
  /\ op = "replied"
  /\ \E parsed \in {parse_tool_calls_from_text(args.first)} :
       IF parsed.raised
       THEN /\ op' = "raised"
            /\ raised' = TRUE
            /\ UNCHANGED response
       ELSE IF parsed.tool_calls = <<>>
       THEN /\ op' = "returned"
            /\ UNCHANGED <<response, raised>>
       ELSE /\ op' = "tools"
            /\ response' = [response EXCEPT
                 !.tool_calls = parsed.tool_calls,
                 !.messages = Append(@, [role |-> "assistant",
                                         tool_calls |-> parsed.tool_calls])]
            /\ UNCHANGED raised
  /\ UNCHANGED <<dirExists, listing, disk, args, calls>>

\* one turn of `for i, tool_call in enumerate(tool_calls, 1)`: the tool is
\* executed and its result appended as a tool message; an exception of
\* execute_tool_call becomes the result in wikid_server (try/except around the
\* call) and leaves the function in qwen_server
ExecuteTool ==
  /\ op = "tools"
  /\ response.executed < Len(response.tool_calls)
  /\ \E tool_call \in {response.tool_calls[response.executed + 1]} :
     \E done \in {execute_tool_call(args.client, tool_call.name, tool_call.arguments)} :
       /\ calls' = Append(calls, [kind |-> "execute", id |-> tool_call.id,
                                  name |-> tool_call.name.text])
       /\ IF done.raised /\ args.client = "qwen_server"
          THEN /\ op' = "raised"
               /\ raised' = TRUE
               /\ UNCHANGED response
          ELSE /\ response' = [response EXCEPT
                    !.executed = @ + 1,
                    !.messages = Append(@, [role |-> "tool",
                                            content |-> IF done.raised
                                                        THEN <<"Error executing tool: ", "exception">>
                                                        ELSE done.result,
                                            tool_call_id |-> tool_call.id])]
               /\ UNCHANGED <<op, raised>>
  /\ UNCHANGED <<dirExists, listing, disk, args>>

\* after the last tool the second request is sent; the function returns
\* whatever its reply holds
SecondRequest ==
  /\ op = "tools"
  /\ response.executed = Len(response.tool_calls)
  /\ calls' = Append(calls, Request(2, FALSE))
  /\ op' = "returned"
  /\ UNCHANGED <<dirExists, listing, disk, args, response, raised>>

\* the second request is sent and fails
SecondRequestFails ==
  /\ op = "tools"
  /\ response.executed = Len(response.tool_calls)
  /\ calls' = Append(calls, Request(2, TRUE))
  /\ op' = "raised"
  /\ raised' = TRUE
  /\ UNCHANGED <<dirExists, listing, disk, args, response>>

ChatNext ==
  \/ FirstRequest \/ FirstRequestFails \/ ParseReply \/ ExecuteTool
  \/ SecondRequest \/ SecondRequestFails

ChatSpec == ChatInit /\ [][ChatNext]_vars

----------------------------------------------------------------------------
(* start_web_server and VLLMServerManager of qwen_server/web_server.py.  In
   this machine op is the place start_web_server has reached: "init" (the
   manager is not made), "made" (before the try block), "starting" (in the try block, before Popen has made the
   child), "spawning" (the child runs, Popen has not returned), "spawned"
   (self.process is assigned, self.running not yet), "sleeping" (in
   time.sleep and up to uvicorn.run), "serving" (in uvicorn.run), "except"
   (an exception has left the try block), "finally" (at vllm_manager.stop(),
   before terminate()), "waiting" (terminate() was called, wait() has not
   returned), "waited" (wait() has returned, self.running not yet cleared) or
   "exited"; args holds the optional arguments of the call; response holds
   whether the manager was made, its fields, the state of the child process,
   the way the function was left, the exception on its way and the number of
   later calls of stop(); calls holds the calls on the child process that were made,
   in order.  KeyboardInterrupt is raised wherever Ctrl+C finds the main
   thread. *)

\* stop() is called at most MaxStops times after start_web_server has exited
MaxStops == 2

\* the command line of start_vllm (lines 38-51), by its optional parts
Command ==
  <<"vllm", "serve">>
  \o (IF args.api_key THEN <<"--api-key">> ELSE <<>>)
  \o (IF args.max_model_len THEN <<"--max-model-len">> ELSE <<>>)

ServerInit ==
  /\ dirExists = FALSE
  /\ listing = <<>>
  /\ disk = <<>>
  /\ op = "init"
  /\ args \in [api_key : BOOLEAN, max_model_len : BOOLEAN]
  /\ response = [manager |-> FALSE, process |-> FALSE, running |-> FALSE,
                 child |-> "none", exit |-> "none", pending |-> "none",
                 stops |-> 0]
  /\ raised = FALSE
  /\ calls = <<>>

\* vllm_manager = VLLMServerManager()
MakeManager ==
  /\ op = "init"
  /\ response' = [response EXCEPT !.manager = TRUE]
  /\ op' = "made"
  /\ UNCHANGED <<dirExists, listing, disk, args, raised, calls>>

\* the try block is entered
EnterTry ==
  /\ op = "made"
  /\ op' = "starting"
  /\ UNCHANGED <<dirExists, listing, disk, args, response, raised, calls>>

\* subprocess.Popen(cmd) starts the child process
Spawn ==
  /\ op = "starting"
  /\ response' = [response EXCEPT !.child = "alive"]
  /\ calls' = Append(calls, [kind |-> "Popen", cmd |-> Command])
  /\ op' = "spawning"
  /\ UNCHANGED <<dirExists, listing, disk, args, raised>>

\* subprocess.Popen(cmd) raises (no vllm on the path)
SpawnFails ==
  /\ op = "starting"
  /\ response' = [response EXCEPT !.pending = "Exception"]
  /\ op' = "except"
  /\ UNCHANGED <<dirExists, listing, disk, args, raised, calls>>

\* self.process = (the Popen object)
SetProcess ==
  /\ op = "spawning"
  /\ response' = [response EXCEPT !.process = TRUE]
  /\ op' = "spawned"
  /\ UNCHANGED <<dirExists, listing, disk, args, raised, calls>>

\* self.running = True
SetRunning ==
  /\ op = "spawned"
  /\ response' = [response EXCEPT !.running = TRUE]
  /\ op' = "sleeping"
  /\ UNCHANGED <<dirExists, listing, disk, args, raised, calls>>

\* time.sleep(3) is over, start_vllm returns and uvicorn.run starts
ServerStarts ==
  /\ op = "sleeping"
  /\ op' = "serving"
  /\ UNCHANGED <<dirExists, listing, disk, args, response, raised, calls>>

\* uvicorn.run returns
ServerReturns ==
  /\ op = "serving"
  /\ op' = "finally"
  /\ UNCHANGED <<dirExists, listing, disk, args, response, raised, calls>>

\* uvicorn.run raises (the port is taken, say)
ServerRaises ==
  /\ op = "serving"
  /\ response' = [response EXCEPT !.pending = "Exception"]
  /\ op' = "except"
  /\ UNCHANGED <<dirExists, listing, disk, args, raised, calls>>

\* except KeyboardInterrupt: the clause catches KeyboardInterrupt and prints;
\* any other exception stays on its way while finally runs
Catch ==
  /\ op = "except"
  /\ response' = [response EXCEPT !.pending = IF @ = "KeyboardInterrupt" THEN "none" ELSE @]
  /\ op' = "finally"
  /\ UNCHANGED <<dirExists, listing, disk, args, raised, calls>>

\* the child process ends by itself
ChildExits ==
  /\ response.child \in {"alive", "terminated"}
  /\ response' = [response EXCEPT !.child = "ended"]
  /\ UNCHANGED <<dirExists, listing, disk, op, args, raised, calls>>

\* stop(): `if self.process and self.running`
Stops(r) == r.process /\ r.running

\* start_web_server is left, by the exception on its way or by a return
\* (nothing changes when it was left before and stop() was called again)
Exit(r) ==
  IF r.exit # "none" THEN [r EXCEPT !.pending = "none"]
  ELSE [r EXCEPT !.exit = IF r.pending = "none" THEN "return" ELSE r.pending,
                 !.pending = "none"]

\* Ctrl+C while start_web_server or stop() runs its own lines: in the try
\* block the except clause is reached; in the except clause KeyboardInterrupt
\* goes on through finally; before the try block, in finally before
\* terminate(), and between wait() and `self.running = False` it leaves the
\* function at once
Interrupted ==
  /\ op \in {"init", "made", "starting", "spawning", "spawned", "sleeping",
             "serving", "except", "finally", "waited"}
  /\ IF op \in {"starting", "spawning", "spawned", "sleeping", "serving"}
     THEN /\ response' = [response EXCEPT !.pending = "KeyboardInterrupt"]
          /\ op' = "except"
          /\ UNCHANGED raised
     ELSE IF op = "except"
     THEN /\ response' = [response EXCEPT !.pending = "KeyboardInterrupt"]
          /\ op' = "finally"
          /\ UNCHANGED raised
     ELSE /\ response' = Exit([response EXCEPT !.pending = "KeyboardInterrupt"])
          /\ raised' = IF response.exit = "none" THEN TRUE ELSE raised
          /\ op' = "exited"
  /\ UNCHANGED <<dirExists, listing, disk, args, calls>>

\* finally: vllm_manager.stop() finds nothing to stop and start_web_server
\* is left
StopIdle ==
  /\ op = "finally"
  /\ ~Stops(response)
  /\ response' = Exit(response)
  /\ raised' = (response.pending # "none")
  /\ op' = "exited"
  /\ UNCHANGED <<dirExists, listing, disk, args, calls>>

\* stop(): self.process.terminate().  Popen.terminate() polls the child
\* first: a child that has ended is reaped and no signal is sent
StopTerminates ==
  /\ \/ op = "finally"
     \/ op = "exited" /\ response.stops < MaxStops
  /\ Stops(response)
  /\ response' = [response EXCEPT
       !.child = CASE @ = "alive" -> "terminated"
                   [] @ = "ended" -> "reaped"
                   [] OTHER -> @,
       !.stops = IF op = "exited" THEN @ + 1 ELSE @]
  /\ calls' = Append(calls, [kind |-> "terminate"])
  /\ op' = "waiting"
  /\ UNCHANGED <<dirExists, listing, disk, args, raised>>

\* self.process.wait() returns: the child has ended and is reaped
WaitReturns ==
  /\ op = "waiting"
  /\ response' = [response EXCEPT !.child = "reaped"]
  /\ calls' = Append(calls, [kind |-> "wait"])
  /\ op' = "waited"
  /\ UNCHANGED <<dirExists, listing, disk, args, raised>>

\* Ctrl+C before self.process.wait() has returned: KeyboardInterrupt leaves
\* stop() and its caller.  Popen.wait() waits a moment more for the child
\* before it passes the interrupt on, so a child that ends in that moment is
\* reaped all the same
WaitInterrupted ==
  /\ op = "waiting"
  /\ \E child \in {response.child}
                  \cup (IF response.child \in {"terminated", "ended"} THEN {"reaped"} ELSE {}) :
       response' = Exit([response EXCEPT !.pending = "KeyboardInterrupt", !.child = child])
  /\ raised' = IF response.exit = "none" THEN TRUE ELSE raised
  /\ op' = "exited"
  /\ UNCHANGED <<dirExists, listing, disk, args, calls>>

\* self.running = False; stop() returns and its caller goes on
\* (start_web_server is left)
SetStopped ==
  /\ op = "waited"
  /\ response' = [Exit(response) EXCEPT !.running = FALSE]
  /\ raised' = IF response.exit = "none" THEN response.pending # "none" ELSE raised
  /\ op' = "exited"
  /\ UNCHANGED <<dirExists, listing, disk, args, calls>>

\* stop() is called again on the manager: it finds nothing to stop, or
\* Ctrl+C comes before it has called terminate()
StopAgainIdle ==
  /\ op = "exited"
  /\ response.manager
  /\ response.stops < MaxStops
  /\ response' = [response EXCEPT !.stops = @ + 1]
  /\ UNCHANGED <<dirExists, listing, disk, op, args, raised, calls>>

ServerNext ==
  \/ MakeManager \/ EnterTry \/ Spawn \/ SpawnFails \/ SetProcess \/ SetRunning
  \/ ServerStarts \/ ServerReturns \/ ServerRaises \/ Catch \/ Interrupted
  \/ ChildExits \/ StopIdle \/ StopTerminates \/ WaitReturns
  \/ WaitInterrupted \/ SetStopped \/ StopAgainIdle

ServerSpec == ServerInit /\ [][ServerNext]_vars

----------------------------------------------------------------------------
(* Properties *)

Range(f) == {f[i] : i \in DOMAIN f}

\* the call searched every archive of the data directory
AllArchives == args.zim_file = <<>> /\ dirExists

\* the lists the per-archive calls returned, one after the other, the calls
\* that raised giving nothing
RECURSIVE Merged(_, _)
Merged(cs, i) ==
  IF i > Len(cs) THEN <<>>
  ELSE (IF cs[i].raised THEN <<>> ELSE cs[i].results) \o Merged(cs, i + 1)

\* the place of a file name in the listing (0: it is not listed)
Place(name) ==
  IF \E i \in 1..Len(listing) : listing[i] = name
  THEN CHOOSE i \in 1..Len(listing) : listing[i] = name
  ELSE 0

\* the title holds one of the foreign indicators, letter for letter
HasIndicator(title) ==
  \E k \in 1..Len(foreign_indicators) : Contains(title, foreign_indicators[k])

\* item h, attributed to source_zim, is an entry of the archive file that a
\* call of this operation opened under that name
ReadFromSource(h) ==
  \E i \in 1..Len(calls) :
    \E f \in {Resolve(calls[i].path)} :
        /\ ~calls[i].raised
        /\ f \in DOMAIN disk
        /\ h.source_zim = Name(f)
        /\ \E n \in 1..Len(Entries(Name(f))) :
             Entries(Name(f))[n].title = h.title /\ Entries(Name(f))[n].path = h.path

\* C1: search_zim never returns more than max_results hits, whether one named
\* archive or all archives of the data directory are searched.
C1_HitCountWithinMax ==
  op = "search_zim" => Len(response.results) <= args.max_results

\* C1 witness: an all-archive search that found more hits than max_results and
\* returned exactly max_results of them.
C1_Witness ==
  /\ op = "search_zim" /\ AllArchives
  /\ "found" \in DOMAIN response
  /\ response.found > args.max_results
  /\ args.max_results > 0
  /\ Len(response.results) = args.max_results

\* C2: in an all-archive search an archive whose search raises does not stop
\* the others: every listed archive is searched, the response is no error,
\* and its hits are those of the archives that did not raise, cut to
\* max_results.
C2_FailureIsolated ==
  (op = "search_zim" /\ AllArchives) =>
     /\ "error" \notin DOMAIN response
     /\ Len(calls) = Len(listing)
     /\ \A i \in 1..Len(calls) : calls[i].path = Glob[i]
     /\ response.results = Slice(Merged(calls, 1), args.max_results)
     /\ \A k \in 1..Len(response.results) :
          \E i \in 1..Len(calls) :
            ~calls[i].raised /\ Name(calls[i].path) = response.results[k].source_zim

\* C2 witness: the second of three archives raised, and the response holds a
\* hit of the first and a hit of the third.
C2_Witness ==
  /\ op = "search_zim" /\ AllArchives
  /\ Len(calls) = 3
  /\ ~calls[1].raised /\ calls[2].raised /\ ~calls[3].raised
  /\ \E k \in 1..Len(response.results) :
       response.results[k].source_zim = Name(calls[1].path)
  /\ \E k \in 1..Len(response.results) :
       response.results[k].source_zim = Name(calls[3].path)

\* the response is a success payload of the operation
IsSuccess ==
  CASE op = "search_zim" -> {"query", "found", "results"} = DOMAIN response
    [] op = "get_zim_suggestions" -> {"query", "found", "suggestions"} = DOMAIN response
    [] op = "get_zim_entry" -> {"title", "path", "content", "source_zim"} = DOMAIN response
    [] op = "list_zim_files" -> {"found", "files"} = DOMAIN response
    [] OTHER -> FALSE

\* the response is an error object of the operation: a message, and the
\* empty list where the operation returns a list
IsError ==
  /\ "error" \in DOMAIN response
  /\ response.error # <<>>
  /\ CASE op = "search_zim" -> DOMAIN response = {"error", "results"} /\ response.results = <<>>
       [] op = "get_zim_suggestions" ->
            DOMAIN response = {"error", "suggestions"} /\ response.suggestions = <<>>
       [] op = "get_zim_entry" -> DOMAIN response = {"error"}
       [] op = "list_zim_files" -> DOMAIN response = {"error", "files"} /\ response.files = <<>>
       [] OTHER -> FALSE

\* C3: none of the four public functions lets an exception reach its caller:
\* each returns a success payload or an error object with a message, and the
\* error objects of search_zim, get_zim_suggestions and list_zim_files carry
\* an empty list.
C3_NeverRaises ==
  op # "init" => (~raised /\ (IsSuccess \/ IsError))

\* C3 witness: the one archive that search_zim was to search raised, and the
\* caller got an error object.
C3_Witness ==
  /\ op = "search_zim"
  /\ Len(calls) = 1 /\ calls[1].raised
  /\ ~raised /\ IsError

\* C4: every hit, suggestion and entry returned names in source_zim the
\* archive file it was read from, also after the hits of several archives
\* were merged and cut.
C4_SourceIsOrigin ==
  /\ (op = "search_zim" =>
        \A k \in 1..Len(response.results) : ReadFromSource(response.results[k]))
  /\ (op = "get_zim_suggestions" =>
        \A k \in 1..Len(response.suggestions) : ReadFromSource(response.suggestions[k]))
  /\ ((op = "get_zim_entry" /\ "content" \in DOMAIN response) => ReadFromSource(response))

\* C4 witness: an all-archive search whose merged hits were cut and still
\* come from two archives.
C4_Witness ==
  /\ op = "search_zim" /\ AllArchives
  /\ "found" \in DOMAIN response
  /\ response.found > Len(response.results)
  /\ \E j, k \in 1..Len(response.results) :
       response.results[j].source_zim # response.results[k].source_zim

\* C5 as claimed: every hit of search_zim names in source_zim an archive file
\* of the data directory, whatever the form of zim_file.
C5_SourceInDataDir ==
  op = "search_zim" =>
     \A k \in 1..Len(response.results) : Place(response.results[k].source_zim) # 0

\* C5 amended: every hit of search_zim names in source_zim an archive file
\* that exists at the call: a file of the data directory when zim_file is
\* none or a bare file name, and the file the path names, wherever it lies,
\* when zim_file is an absolute path.
C5_SourceExists ==
  op = "search_zim" =>
     \A k \in 1..Len(response.results) :
        IF IsAbs(args.zim_file)
        THEN /\ response.results[k].source_zim = Name(args.zim_file)
             /\ Resolve(args.zim_file) \in Files
        ELSE /\ Place(response.results[k].source_zim) # 0
             /\ Join(ZIM_DATA_PATH, <<response.results[k].source_zim>>) \in Files

\* C5 witness: a search of an archive named by an absolute path outside the
\* data directory returned a hit.
C5_Witness ==
  /\ op = "search_zim"
  /\ args.zim_file = OutsideFile
  /\ Len(response.results) > 0

\* C6 as claimed: in an all-archive search each archive is searched with the
\* limit max_results integer-divided by the number of archives.
C6_FairShare ==
  (op = "search_zim" /\ AllArchives) =>
     \A i \in 1..Len(calls) : calls[i].limit = args.max_results \div Len(listing)

\* C7: the results of an all-archive search are a prefix of the per-archive
\* lists joined in enumeration order; no hit of a later archive precedes a
\* hit of an earlier one, whatever the scores.
C7_ArchiveOrder ==
  (op = "search_zim" /\ AllArchives) =>
     /\ Len(response.results) <= Len(Merged(calls, 1))
     /\ response.results = SubSeq(Merged(calls, 1), 1, Len(response.results))
     /\ \A j, k \in 1..Len(response.results) :
          j < k => Place(response.results[j].source_zim) <= Place(response.results[k].source_zim)

\* C7 witness: an all-archive search returned a hit of a later archive with a
\* higher score after a hit of an earlier archive.
C7_Witness ==
  /\ op = "search_zim" /\ AllArchives
  /\ \E j, k \in 1..Len(response.results) :
       /\ j < k
       /\ Place(response.results[j].source_zim) < Place(response.results[k].source_zim)
       /\ response.results[j].score < response.results[k].score

\* the named archive exists neither as given nor with ".zim" appended
Unresolvable(zim_file) ==
  LET given == IF IsAbs(zim_file) THEN zim_file ELSE Join(ZIM_DATA_PATH, zim_file)
  IN  zim_file # <<>> /\ ~Exists(given) /\ ~Exists(WithExt(given))

\* C8: when the named archive exists neither as given nor with ".zim"
\* appended, search_zim, get_zim_suggestions and get_zim_entry return a
\* 'ZIM file not found' error (with an empty list for the first two), open
\* no archive and raise nothing.
C8_MissingArchive ==
  (op \in {"search_zim", "get_zim_suggestions", "get_zim_entry"} /\ Unresolvable(args.zim_file)) =>
     /\ ~raised
     /\ IsError
     /\ response.error = <<"ZIM file not found: ", args.zim_file>>
     /\ calls = <<>>

\* C8 witness: get_zim_suggestions was called with a name that no file of the
\* existing data directory has, with or without ".zim".
C8_Witness ==
  /\ op = "get_zim_suggestions"
  /\ dirExists
  /\ ~IsAbs(args.zim_file)
  /\ Unresolvable(args.zim_file)
  /\ "error" \in DOMAIN response

\* C9: when the data directory does not exist, search_zim and
\* get_zim_suggestions without a named archive, and list_zim_files, report
\* the missing directory as an error with an empty list, open no archive and
\* raise nothing.
C9_MissingDirectory ==
  (/\ ~dirExists
   /\ \/ op \in {"search_zim", "get_zim_suggestions"} /\ args.zim_file = <<>>
      \/ op = "list_zim_files") =>
     /\ ~raised
     /\ IsError
     /\ response.error = <<"ZIM data directory not found">>
     /\ calls = <<>>

\* C9 witness: list_zim_files returned while the data directory was missing.
C9_Witness ==
  ~dirExists /\ op = "list_zim_files" /\ "error" \in DOMAIN response

\* C10: no hit of search_zim, from the index or from the title scan, has a
\* title holding a foreign indicator, and every hit passes the language
\* filter with its title and preview.
C10_HitsAreEnglish ==
  op = "search_zim" =>
     \A k \in 1..Len(response.results) :
        /\ ~HasIndicator(response.results[k].title)
        /\ _is_english_content(response.results[k].title, response.results[k].content_preview)

\* C10 witness: a title scan of a.zim drew both of its entries, both titles
\* held the query, and only the one without the indicator was returned.
C10_Witness ==
  /\ op = "search_zim"
  /\ args.zim_file = <<"a.zim">>
  /\ args.max_results >= 2
  /\ Len(calls) = 1 /\ calls[1].via = "scan"
  /\ Range(args.rnd) = {0, 1}
  /\ Len(response.results) = 1

\* text t holds text w at place i
HoldsAt(t, w, i) ==
  /\ i + Len(w) - 1 <= Len(t)
  /\ \A j \in 1..Len(w) : t[i + j - 1] = w[j]

\* the title holds an indicator at some place, both put in lower case
MarkerInTitle(title) ==
  \E k \in 1..Len(foreign_indicators) :
    \E i \in 1..Len(title) :
      HoldsAt(LowerStr(title), LowerStr(foreign_indicators[k]), i)

\* a phrase lies within the first 200 characters of the content put in lower
\* case
PhraseInHead(content) ==
  \E k \in 1..Len(non_english_phrases) :
    \E i \in 1..Len(content) :
      /\ i + Len(non_english_phrases[k]) - 1 <= ContentCheckLen
      /\ HoldsAt(LowerStr(content), non_english_phrases[k], i)

\* C11: _is_english_content returns False exactly when the title holds an
\* indicator, compared without regard to case, or the first 200 characters of
\* the content hold a phrase; otherwise True, also for a phrase that lies
\* beyond character 200 and for an empty title and content.
C11_FilterExact ==
  op = "_is_english_content" =>
     (response = ~(MarkerInTitle(args.title) \/ PhraseInHead(args.content)))

\* C11 witness: the filter passed a content whose phrase is cut by character
\* 200, under a title without indicator.
C11_Witness ==
  /\ op = "_is_english_content"
  /\ args.title = FT_Bare
  /\ args.content = Pad(ContentCheckLen - Len(P_CetArticle) + 1) \o P_CetArticle
  /\ response = TRUE

\* the query is part of the title, letters compared without regard to case
TitleHolds(title, query) == Contains(LowerStr(title), LowerStr(query))

\* the call named one archive file, the file opened, and it has no
\* full-text index
NamedWithoutIndex ==
  /\ args.zim_file # <<>>
  /\ Len(calls) = 1
  /\ ~calls[1].raised
  /\ ~ArchiveAt(Resolve(calls[1].path)).has_fulltext_index

\* entry e of an archive can be shown: its text can be read and the language
\* filter lets it pass
Presentable(archive, e) ==
  \E preview \in {ContentPreview(archive, e)} :
     ~preview.raised /\ _is_english_content(e.title, preview.text)

\* C12 as stated: searching an archive without a full-text index for a query
\* that is part of an entry's title yields a hit for that entry with score 1.0
\* (here even for entries that can be shown and a max_results that has room
\* for every entry of the archive).
C12_TitleMatchIsHit ==
  (op = "search_zim" /\ NamedWithoutIndex) =>
     \A archive \in {ArchiveAt(Resolve(calls[1].path))} :
        \A e \in Range(archive.entries) :
           ( /\ TitleHolds(e.title, args.query)
             /\ Presentable(archive, e)
             /\ args.max_results >= Len(archive.entries) )
           => \E h \in Range(response.results) :
                 h.title = e.title /\ h.path = e.path /\ h.score = TitleScore

\* the draws that came before the i-th per-archive call of the operation
RECURSIVE DrawsBefore(_)
DrawsBefore(i) == IF i <= 1 THEN 0 ELSE DrawsBefore(i - 1) + calls[i - 1].drawn

\* the entry the j-th draw (0-based) of the i-th per-archive call gives
DrawnEntry(i, j) ==
  RandomEntry(ArchiveAt(Resolve(calls[i].path)), args.rnd, DrawsBefore(i) + j)

\* the number of title matches among the first d draws of the i-th call whose
\* text could be read: the matches the scan collects
Collected(i, d) ==
  Cardinality({j \in 0..(d - 1) :
     \E archive \in {ArchiveAt(Resolve(calls[i].path))} :
        \E e \in {RandomEntry(archive, args.rnd, DrawsBefore(i) + j)} :
           TitleHolds(e.title, args.query) /\ ~ContentPreview(archive, e).raised})

\* the draws of the i-th call that give an entry that is to be a hit: the
\* draw is one of the min(1000, entry_count) draws of the sample, fewer than
\* max_results title matches with readable text were drawn before it, the
\* title of the entry holds the query, and the entry can be shown
HitDraws(i) ==
  {j \in 0..(Min(SampleBudget, Len(ArchiveAt(Resolve(calls[i].path)).entries)) - 1) :
     /\ Collected(i, j) < calls[i].limit
     /\ TitleHolds(DrawnEntry(i, j).title, args.query)
     /\ Presentable(ArchiveAt(Resolve(calls[i].path)), DrawnEntry(i, j))}

\* the place of draw j among the draws that are to be hits
HitPlace(i, j) == Cardinality({d \in HitDraws(i) : d <= j})

\* C12 amended: when the full-text index of an archive is absent, a
\* title-substring match still returns a hit with score exactly 1.0 whenever
\* the entry is drawn: every draw of the sample that gives an entry whose
\* title holds the query and which can be shown (readable text, English)
\* yields a hit for that entry with score 1.0, while fewer than max_results
\* title matches with readable text were drawn before it; the hits of the
\* archive are these and no others, one for each such draw in the order of the
\* draws, so an entry that is not drawn yields no hit; a search that names
\* the archive returns these hits.
C12_DrawnTitleMatchIsHit ==
  op = "search_zim" =>
     /\ \A i \in 1..Len(calls) :
           (~calls[i].raised /\ ~ArchiveAt(Resolve(calls[i].path)).has_fulltext_index) =>
              /\ Len(calls[i].results) = Cardinality(HitDraws(i))
              /\ \A j \in HitDraws(i) :
                    /\ calls[i].results[HitPlace(i, j)].title = DrawnEntry(i, j).title
                    /\ calls[i].results[HitPlace(i, j)].path = DrawnEntry(i, j).path
                    /\ calls[i].results[HitPlace(i, j)].score = TitleScore
     /\ NamedWithoutIndex => response.results = calls[1].results

\* C12 witness: a.zim has no index and is searched for "SYS" with room for
\* two hits; the first draw gives "Systemd (Deutsch)", which the language
\* filter drops, the second draw gives "Systemd", and the only hit is
\* "Systemd" with score 1.0.
C12_Witness ==
  /\ op = "search_zim"
  /\ NamedWithoutIndex
  /\ args.zim_file = <<"a.zim">>
  /\ args.query = <<83,89,83>>
  /\ args.max_results = 2
  /\ DrawnEntry(1, 0).title = T_SystemdDe
  /\ DrawnEntry(1, 1).title = T_Systemd
  /\ HitDraws(1) = {1}
  /\ calls[1].drawn = 2
  /\ Len(response.results) = 1
  /\ response.results[1].title = T_Systemd
  /\ response.results[1].score = TitleScore

\* hit h of a per-archive call with the given limit is one of the first
\* results of the index, with the score and the snippet of the index
FromIndex(archive, ranked, limit, h) ==
  \E n \in 1..Min(limit, Len(ranked)) :
     /\ archive.entries[ranked[n]].title = h.title
     /\ archive.entries[ranked[n]].path = h.path
     /\ archive.entries[ranked[n]].score = h.score
     /\ IndexResult(archive.entries[ranked[n]]).snippet = h.snippet

\* C13 as stated: the sample scan of an archive runs only when the archive has
\* no full-text index or its full-text search raised an error.
C13_ScanOnlyWithoutIndex ==
  op = "search_zim" =>
     \A c \in Range(calls) : (~c.raised /\ c.via = "scan") =>
        \E archive \in {ArchiveAt(Resolve(c.path))} :
           ~archive.has_fulltext_index \/ ~archive.searchable

\* C13 amended: the sample scan of an archive runs exactly when the archive
\* has no full-text index, its full-text search raised an error, or the index
\* reports no match for the query; when the index reports a match, nothing is
\* drawn and the hits of that archive are results of the index.
C13_ScanUnlessIndexMatches ==
  op = "search_zim" =>
     \A c \in Range(calls) : ~c.raised =>
        \A archive \in {ArchiveAt(Resolve(c.path))} :
           \A ranked \in {Ranked(archive, args.query, {})} :
              /\ c.via \in {"scan", "index"}
              /\ c.via = "scan" <=> \/ ~archive.has_fulltext_index
                                    \/ ~archive.searchable
                                    \/ Len(ranked) = 0
              /\ c.via = "index" =>
                    /\ c.drawn = 0
                    /\ \A h \in Range(c.results) : FromIndex(archive, ranked, c.limit, h)

\* C13 witness: c.zim has a full-text index, the query "init" completes with
\* no match, and the scan draws entries of the archive.
C13_Witness ==
  /\ op = "search_zim"
  /\ args.zim_file = Join(ZIM_DATA_PATH, <<"c.zim">>)
  /\ args.query = <<105,110,105,116>>
  /\ Len(calls) = 1 /\ ~calls[1].raised
  /\ disk[Resolve(calls[1].path)] = "indexed"
  /\ calls[1].via = "scan"
  /\ calls[1].drawn > 0

\* C14: the fallback scan of one archive draws at most min(1000, entry_count)
\* entries, stops drawing as soon as max_results title matches have been
\* collected, keeps only entries whose title contains the query, and so ends
\* with at most max_results hits; an archive with more than 1000 entries is
\* never scanned in full.
C14_ScanIsBounded ==
  (op \in {"search_zim", "_search_archive"}) =>
     \A i \in 1..Len(calls) : (~calls[i].raised /\ calls[i].via = "scan") =>
        \A n \in {Len(ArchiveAt(Resolve(calls[i].path)).entries)} :
           /\ calls[i].drawn <= Min(SampleBudget, n)
           /\ n > SampleBudget => calls[i].drawn < n
           /\ Len(calls[i].results) <= calls[i].limit
           /\ \A h \in Range(calls[i].results) : TitleHolds(h.title, args.query)
           /\ Collected(i, calls[i].drawn) <= calls[i].limit
           /\ calls[i].drawn < Min(SampleBudget, n) =>
                 Collected(i, calls[i].drawn) = calls[i].limit
           /\ calls[i].drawn > 0 => Collected(i, calls[i].drawn - 1) < calls[i].limit

\* C14 witness: the big archive has no index and more than 1000 entries, no
\* drawn title holds the query, and the scan ends after 1000 draws.
C14_Witness ==
  /\ op = "_search_archive"
  /\ calls[1].via = "scan"
  /\ Len(ArchiveAt(Resolve(calls[1].path)).entries) > SampleBudget
  /\ args.max_results > 0
  /\ calls[1].drawn = SampleBudget
  /\ calls[1].results = <<>>

\* C15: get_zim_entry on an entry that is a redirect returns as content a
\* redirect notice that names the title of the entry it redirects to, followed
\* by the rendered content of that target; one hop is followed: the notice
\* names the direct target also when the target is a redirect itself.
C15_RedirectContent ==
  op = "get_zim_entry" =>
     \A c \in Range(calls) : (~c.raised /\ "content" \in DOMAIN c.results) =>
        \A archive \in {ArchiveAt(Resolve(c.path))} :
           \A e \in Range(archive.entries) :
              (e.title = c.results.title /\ e.path = c.results.path /\ e.redirect # 0) =>
                 \A target \in {archive.entries[e.redirect]} :
                    /\ c.results.content =
                          RedirectNotice \o target.title \o ContentHeader
                            \o ItemText(archive, target, Len(archive.entries)).text
                    /\ target.redirect = 0 =>
                          c.results.content =
                             RedirectNotice \o target.title \o ContentHeader \o target.rendered

\* C15 witness: "Sysfs alias" redirects to "Sysfs link", itself a redirect to
\* "Sysfs"; the content names "Sysfs link" and carries the text of the item.
C15_Witness ==
  /\ op = "get_zim_entry"
  /\ args.title = T_SysfsAlias
  /\ response = [title |-> T_SysfsAlias,
                 path |-> InA(T_SysfsAlias),
                 content |-> RedirectNotice \o T_SysfsLink \o ContentHeader \o X_Sysfs,
                 source_zim |-> "x.zim"]

\* the i-th per-archive call of get_zim_entry gave an entry with content
GaveContent(i) == ~calls[i].raised /\ "content" \in DOMAIN calls[i].results

\* archive file f holds an entry under the identifier, as title or as path
HoldsEntry(f, id) ==
  /\ f \in DOMAIN disk
  /\ \E e \in Range(ArchiveAt(f).entries) : e.title = id \/ e.path = id

\* C16: get_zim_entry without a named archive tries the archives in
\* enumeration order and returns the result of the first archive that yields
\* an entry with content; later archives are not opened; an archive that
\* raises or returns an error is skipped; when no archive yields content the
\* result is the error 'Entry not found in any ZIM file'.
C16_FirstArchiveWins ==
  (op = "get_zim_entry" /\ AllArchives) =>
     /\ Len(calls) <= Len(Glob)
     /\ \A i \in 1..Len(calls) : calls[i].path = Glob[i]
     /\ \A i \in 1..(Len(calls) - 1) : ~GaveContent(i)
     /\ \A i \in 1..Len(calls) :
           /\ calls[i].raised <=> ~Opens(calls[i].path)
           /\ GaveContent(i) => HoldsEntry(Resolve(calls[i].path), args.title)
           /\ (~calls[i].raised /\ ~GaveContent(i)) => "error" \in DOMAIN calls[i].results
     /\ IF Len(calls) > 0 /\ GaveContent(Len(calls))
        THEN /\ response = calls[Len(calls)].results
             /\ response.source_zim = Name(Glob[Len(calls)])
        ELSE /\ Len(calls) = Len(Glob)
             /\ response = [error |-> <<"Entry not found in any ZIM file: ", args.title>>]

\* C16 witness: of the archives c.zim, b.zim, a.zim the first cannot be
\* opened and is skipped, the entry "Sysctl" is returned from b.zim, and a.zim
\* is not opened.
C16_Witness ==
  /\ op = "get_zim_entry"
  /\ AllArchives
  /\ listing = <<"c.zim", "b.zim", "a.zim">>
  /\ args.title = T_Sysctl
  /\ Len(calls) = 2
  /\ calls[1].raised
  /\ "content" \in DOMAIN response
  /\ response.source_zim = "b.zim"

\* the answer of one archive that the entry is not in it
NotFoundIn(id, zim_path) == [error |-> <<"Entry not found in: ", id, Name(zim_path)>>]

\* C17: within one archive the identifier is looked up as a title first and
\* as a path only if no entry has it as title: when one entry has it as title
\* and another as path, the entry with the title is returned; when no entry has
\* it as title or path, the archive reports the entry as not found.
C17_TitleBeforePath ==
  op = "get_zim_entry" =>
     \A c \in Range(calls) : ~c.raised =>
        \A entries \in {ArchiveAt(Resolve(c.path)).entries} :
           IF \E e \in Range(entries) : e.title = args.title
           THEN /\ c.results # NotFoundIn(args.title, c.path)
                /\ "content" \in DOMAIN c.results => c.results.title = args.title
           ELSE IF \E e \in Range(entries) : e.path = args.title
           THEN /\ c.results # NotFoundIn(args.title, c.path)
                /\ "content" \in DOMAIN c.results => c.results.path = args.title
           ELSE c.results = NotFoundIn(args.title, c.path)

\* C17 witness: in b.zim "Sysctl" is the title of one entry and the path of
\* another, "Sysv init"; the entry titled "Sysctl" is returned.
C17_Witness ==
  /\ op = "get_zim_entry"
  /\ args.title = T_Sysctl
  /\ args.zim_file = <<"b">>
  /\ Len(calls) = 1 /\ ~calls[1].raised
  /\ \E e \in Range(ArchiveAt(Resolve(calls[1].path)).entries) :
        e.path = args.title /\ e.title # args.title
  /\ "content" \in DOMAIN response
  /\ response.title = T_Sysctl
  /\ response.path = InA(T_Sysctl)

\* the budget of an aggregating call and the items it returned
Budget == IF op = "search_zim" THEN args.max_results ELSE args.max_suggestions
Items == IF op = "search_zim" THEN response.results ELSE response.suggestions

\* the aggregation rule of search_zim, read for a call with the given budget:
\* every listed archive is called in order with the allotment of search_zim (a
\* named archive with the whole budget), failing archives give nothing, and
\* the lists are joined in that order and cut to the budget
AggregatedAsSearch ==
  /\ AllArchives =>
        /\ Len(calls) = Len(Glob)
        /\ \A i \in 1..Len(calls) :
              calls[i].path = Glob[i] /\ calls[i].limit = PerArchiveLimit(Budget)
  /\ ~AllArchives =>
        Len(calls) = 1 /\ ~calls[1].raised /\ calls[1].limit = Budget
  /\ \E payload \in {SearchPayload(args.query, Merged(calls, 1), Budget)} :
        Items = payload.results /\ response.found = payload.found

\* C18: get_zim_suggestions aggregates exactly as search_zim does, with
\* max_suggestions in place of max_results: the same per-archive allotment,
\* failing archives skipped, the lists joined in enumeration order and cut to
\* the budget, so that never more than max_suggestions suggestions are returned.
C18_SuggestionsAggregateAsSearch ==
  (op \in {"search_zim", "get_zim_suggestions"} /\ "query" \in DOMAIN response) =>
     /\ AggregatedAsSearch
     /\ Len(Items) <= Budget

\* C18 witness: three archives give one suggestion each for a budget of two,
\* and the two of the archives listed first are returned.
C18_Witness ==
  /\ op = "get_zim_suggestions"
  /\ AllArchives
  /\ Len(calls) = 3
  /\ args.max_suggestions = 2
  /\ response.found = 3
  /\ Len(response.suggestions) = 2
  /\ response.suggestions[1].source_zim = listing[1]
  /\ response.suggestions[2].source_zim = listing[2]

\* one named archive was asked, and the file it names exists: its state
NamedArchive == args.zim_file # <<>> /\ Len(calls) = 1
NamedMode == disk[Resolve(calls[1].path)]

\* C19 as stated: when one named archive is searched and opening it or
\* querying its index fails, search_zim and get_zim_suggestions return an
\* error result with an empty list, not a success payload.
C19_NamedFailureIsError ==
  ( /\ op \in {"search_zim", "get_zim_suggestions"}
    /\ NamedArchive
    /\ NamedMode \in {"broken", "indexfail"} )
  => IsError

\* C19 amended: when one named archive is searched and opening it fails, the
\* failure is the result: an error object with an empty list. When the archive
\* opens and querying its index fails, the result is a success payload:
\* search_zim returns what the title scan of the archive finds, and
\* get_zim_suggestions returns no suggestion.
C19_OpenFailureIsError ==
  (op \in {"search_zim", "get_zim_suggestions"} /\ NamedArchive) =>
     /\ NamedMode = "broken" => (calls[1].raised /\ IsError)
     /\ NamedMode = "indexfail" =>
           /\ ~calls[1].raised
           /\ IsSuccess
           /\ op = "search_zim" =>
                 /\ calls[1].via = "scan"
                 /\ response.results = calls[1].results
           /\ op = "get_zim_suggestions" =>
                 response.suggestions = <<>> /\ response.found = 0

\* C19 witness: the search of the index of the named a.zim raises, and
\* search_zim returns a success payload with a hit of the title scan.
C19_Witness ==
  /\ op = "search_zim"
  /\ args.zim_file = <<"a.zim">>
  /\ NamedArchive
  /\ NamedMode = "indexfail"
  /\ IsSuccess
  /\ Len(response.results) >= 1
  /\ response.results[1].score = TitleScore

\* the archives whose handle is open: something still holds them
OpenHandles == {i \in 1..Len(calls) : calls[i].holders # {}}

\* how many handles are open at once: one, but for list_zim_files, which
\* makes the next archive before it lets go of the one before
OpenAtOnce ==
  Cardinality(OpenHandles) <= (IF args.fn = "list_zim_files" THEN 2 ELSE 1)

\* list_zim_files holds two archives at once, between Archive() and the
\* assignment of line 61
TwoHandlesCase ==
  /\ args.fn = "list_zim_files"
  /\ op = "opened"
  /\ Cardinality(OpenHandles) = 2

\* C20: after search_zim, get_zim_suggestions, get_zim_entry or list_zim_files
\* has returned, every archive handle opened during the call has been
\* released, on every exit path: a normal return, a caught exception, and the
\* failure of a later archive of the same all-archive call.
C20_HandlesReleased ==
  op = "returned" => OpenHandles = {}

\* C20 witness: an all-archive search opened its first archive, an exception
\* left the search of the second after it was opened, the third could not be
\* opened, and after the return no handle is open.
C20_Witness ==
  /\ op = "returned"
  /\ args.fn = "search_zim"
  /\ args.zim_file = <<>>
  /\ Len(calls) = 3
  /\ ~calls[1].raised
  /\ calls[2].raised /\ Opens(calls[2].path)
  /\ calls[3].raised /\ ~Opens(calls[3].path)
  /\ OpenHandles = {}

\* the paths _resolve_zim_file tries for a relative identifier
Literal(zim_file) == Join(ZIM_DATA_PATH, zim_file)
Extended(zim_file) == Join(ZIM_DATA_PATH, WithExt(zim_file))

\* C21 as stated: an absolute identifier is returned unchanged when it
\* exists; for a relative one <data dir>/<name> is returned when it exists,
\* and otherwise <data dir>/<name>.zim is tried if the name lacks an
\* extension; the result is not-found when none of the tried names exists.
C21_RetryWithoutExtension ==
  op = "_resolve_zim_file" =>
     \A id \in {args.zim_file} :
        response =
           IF IsAbs(id) THEN (IF Exists(id) THEN id ELSE <<>>)
           ELSE IF Exists(Literal(id)) THEN Literal(id)
           ELSE IF ~HasExt(Name(id)) /\ Exists(Extended(id)) THEN Extended(id)
           ELSE <<>>

\* C21 amended: an absolute identifier is returned unchanged when it exists;
\* for a relative one <data dir>/<name> is returned when it exists, and
\* otherwise <data dir>/<name>.zim is tried, whether or not the name has an
\* extension; the literal name wins when both exist, and the result is
\* not-found when neither exists.
C21_RetryAlways ==
  op = "_resolve_zim_file" =>
     \A id \in {args.zim_file} :
        /\ IsAbs(id) => response = (IF Exists(id) THEN id ELSE <<>>)
        /\ (~IsAbs(id) /\ Exists(Literal(id))) => response = Literal(id)
        /\ (~IsAbs(id) /\ ~Exists(Literal(id)) /\ Exists(Extended(id))) =>
              response = Extended(id)
        /\ (~IsAbs(id) /\ ~Exists(Literal(id)) /\ ~Exists(Extended(id))) =>
              response = <<>>

\* C21 witness: "a.zim" is not in the data directory and "a.zim.zim" is; the
\* identifier "a.zim" resolves to <data dir>/a.zim.zim.
C21_Witness ==
  /\ op = "_resolve_zim_file"
  /\ args.zim_file = <<"a.zim">>
  /\ ~Exists(Literal(args.zim_file))
  /\ response = Join(ZIM_DATA_PATH, <<"a.zim.zim">>)

\* the file names of the data directory that match "*.zim", in directory order
ZimFilesPresent == SelectSeq(listing, IsZim)

\* C22: list_zim_files returns exactly one record per "*.zim" file of the
\* data directory, in directory order; an archive that cannot be opened is
\* listed with its file name, its path and an 'error' field in place of the
\* metadata, the other archives are listed all the same, and 'found' is the
\* number of records.
C22_EveryArchiveListed ==
  (op = "list_zim_files" /\ dirExists) =>
     /\ IsSuccess
     /\ response.found = Len(response.files)
     /\ Len(response.files) = Len(ZimFilesPresent)
     /\ \A k \in 1..Len(response.files) :
           \A record \in {response.files[k]} :
              /\ record.filename = ZimFilesPresent[k]
              /\ record.path = Join(ZIM_DATA_PATH, <<ZimFilesPresent[k]>>)
              /\ IF disk[record.path] = "broken"
                 THEN DOMAIN record = {"filename", "path", "error"}
                 ELSE /\ "error" \notin DOMAIN record
                      /\ {"title", "description", "creator", "publisher", "date",
                          "article_count", "media_count"} \subseteq DOMAIN record
                      /\ record.entry_count = Len(Entries(record.filename))

\* C22 witness: the directory lists b.zim, the file b and a.zim, which cannot
\* be opened; two records are returned in that order, the first with the
\* metadata of b.zim (its title is empty, so the stem stands for it; its date
\* is no UTF-8) and the second with an error.
C22_Witness ==
  /\ op = "list_zim_files"
  /\ listing = <<"b.zim", "b", "a.zim">>
  /\ disk[Join(ZIM_DATA_PATH, <<"a.zim">>)] = "broken"
  /\ disk[Join(ZIM_DATA_PATH, <<"b.zim">>)] # "broken"
  /\ response.found = 2
  /\ response.files[1].filename = "b.zim"
  /\ response.files[1].title = "b"
  /\ response.files[1].description = "Kernel pages"
  /\ response.files[1].date = ""
  /\ response.files[1].entry_count = 2
  /\ response.files[1].article_count = 1
  /\ "error" \in DOMAIN response.files[2]


\* the first n results of the index that can be shown, in the order of the
\* index
RECURSIVE Shown(_, _, _)
Shown(archive, ranked, n) ==
  IF n = 0 THEN <<>>
  ELSE Shown(archive, ranked, n - 1)
       \o (IF Presentable(archive, archive.entries[ranked[n]])
           THEN <<archive.entries[ranked[n]]>> ELSE <<>>)

\* C23: the indexed search of an archive looks at the first
\* min(max_results, estimated matches) results of the index only and returns
\* those of them that can be read and pass the language filter, in the order
\* of the index, with the score of the index; a dropped result is not replaced
\* by a later one.
C23_IndexedExaminesFirst ==
  op = "search_zim" =>
     \A c \in Range(calls) : (~c.raised /\ c.via = "index") =>
        \A archive \in {ArchiveAt(Resolve(c.path))} :
           \A shown \in {Shown(archive, Ranked(archive, args.query, {}),
                               Min(c.limit, Len(Ranked(archive, args.query, {}))))} :
              /\ Len(c.results) = Len(shown)
              /\ \A n \in 1..Len(shown) :
                    /\ c.results[n].title = shown[n].title
                    /\ c.results[n].path = shown[n].path
                    /\ c.results[n].score = shown[n].score

\* C23 witness: c.zim is indexed and the query "SYS" matches three entries;
\* with room for two hits the search looks at "System", which cannot be read,
\* and at "Syslog", and returns "Syslog" alone, although "Systemd" would pass.
C23_Witness ==
  /\ op = "search_zim"
  /\ args.zim_file = Join(ZIM_DATA_PATH, <<"c.zim">>)
  /\ args.query = <<83,89,83>>
  /\ args.max_results = 2
  /\ Len(calls) = 1 /\ ~calls[1].raised /\ calls[1].via = "index"
  /\ Len(response.results) = 1
  /\ response.results[1].title = T_Syslog
  /\ \E e \in Range(ArchiveAt(Resolve(calls[1].path)).entries) :
        e.title = T_Systemd /\ Presentable(ArchiveAt(Resolve(calls[1].path)), e)


\* the archive with every entry readable
Healed(archive) ==
  [archive EXCEPT !.entries =
     [i \in DOMAIN archive.entries |-> [archive.entries[i] EXCEPT !.unreadable = FALSE]]]

\* the hits that are not hits for an unreadable entry of the archive
OfReadable(hits, archive) ==
  SelectSeq(hits, LAMBDA h : ~\E e \in Range(archive.entries) :
                                 e.unreadable /\ e.path = h.path)

\* the hits the i-th per-archive call would have returned had every entry of
\* its archive been readable
HealedResults(i) ==
  LET Indexed(archive, ranked) ==
        IndexedLoop(archive, calls[i].path, ranked, Min(calls[i].limit, Len(ranked)), 0)
      Scanned(archive) ==
        ScanLoop(archive, calls[i].path, args.query, calls[i].limit, args.rnd,
                 DrawsBefore(i), 0, SampleSize(archive),
                 [results |-> <<>>, drawn |-> 0, count |-> 0]).results
      Of(archive) ==
        IF calls[i].via = "index"
        THEN Indexed(archive, Ranked(archive, args.query, {}))
        ELSE Scanned(archive)
  IN  Of(Healed(ArchiveAt(Resolve(calls[i].path))))

\* s is the beginning of t
IsPrefix(s, t) == Len(s) <= Len(t) /\ s = SubSeq(t, 1, Len(s))

\* C24: an entry that cannot be processed is skipped and nothing else: the
\* search of an archive that opens does not fail, it returns no hit for the
\* entry, and the hits it would have returned for the other entries had the
\* entry been readable are all returned, in the same order; in the indexed
\* search these are all the hits, in the title scan the hits begin with them.
C24_EntryFailureSkipsEntry ==
  op = "search_zim" =>
     \A i \in 1..Len(calls) :
        /\ calls[i].raised <=> ~Opens(calls[i].path)
        /\ ~calls[i].raised =>
              \A archive \in {ArchiveAt(Resolve(calls[i].path))} :
                 /\ OfReadable(calls[i].results, archive) = calls[i].results
                 /\ calls[i].via = "index" =>
                       OfReadable(HealedResults(i), archive) = calls[i].results
                 /\ calls[i].via = "scan" =>
                       IsPrefix(OfReadable(HealedResults(i), archive), calls[i].results)

\* C24 witness: c.zim has no index; the scan draws "System" first, which
\* cannot be read, goes on and returns "Syslog", drawn next.
C24_Witness ==
  /\ op = "search_zim"
  /\ args.zim_file = Join(ZIM_DATA_PATH, <<"c.zim">>)
  /\ args.query = <<83,89,83>>
  /\ Len(calls) = 1 /\ ~calls[1].raised /\ calls[1].via = "scan"
  /\ RandomEntry(ArchiveAt(Resolve(calls[1].path)), args.rnd, 0).unreadable
  /\ calls[1].drawn >= 2
  /\ Len(response.results) >= 1
  /\ response.results[1].title = T_Syslog
  /\ IsSuccess

\* the indexed search, too, goes on after a result that cannot be read: c.zim
\* is indexed, "System" is the best result, and the two results after it are
\* returned
C24_IndexedCase ==
  /\ op = "search_zim"
  /\ args.zim_file = Join(ZIM_DATA_PATH, <<"c.zim">>)
  /\ args.query = <<83,89,83>>
  /\ args.max_results = 3
  /\ Len(calls) = 1 /\ ~calls[1].raised /\ calls[1].via = "index"
  /\ Len(response.results) = 2
  /\ response.results[1].title = T_Syslog
  /\ response.results[2].title = T_Systemd


\* C28 as claimed: in a successful response of search_zim 'found' is the
\* number of hits in 'results', and in a successful response of
\* get_zim_suggestions 'found' is the number of entries in 'suggestions'.
C28_FoundIsCount ==
  /\ (op = "search_zim" /\ IsSuccess) => response.found = Len(response.results)
  /\ (op = "get_zim_suggestions" /\ IsSuccess) =>
        response.found = Len(response.suggestions)

\* C29 as claimed: the hits of the title scan of one archive are pairwise
\* distinct: no two of them have the same path.
C29_ScanHitsDistinct ==
  op = "search_zim" =>
     \A c \in Range(calls) : (~c.raised /\ c.via = "scan") =>
        \A m, n \in 1..Len(c.results) :
           c.results[m].path = c.results[n].path => m = n


\* the file or directory f lies inside the data directory
InsideDataDir(f) ==
  /\ Len(f) > Len(ZIM_DATA_PATH)
  /\ SubSeq(f, 1, Len(ZIM_DATA_PATH)) = ZIM_DATA_PATH

\* C30 as claimed: for an identifier that is no absolute path, the path
\* _resolve_zim_file returns denotes a file inside the data directory.
C30_RelativeStaysInside ==
  (op = "_resolve_zim_file" /\ ~IsAbs(args.zim_file) /\ response # <<>>) =>
     /\ InsideDataDir(Resolve(response))
     /\ Resolve(response) \in Files


\* event e of the interactive loop is a line that says the word, blanks
\* around it aside
SaysWord(e, word) == "line" \in DOMAIN e /\ Strip(e.line) = word

\* event e is a line that says quit or exit in any letter case
SaysQuit(e) == "line" \in DOMAIN e /\ LowerStr(Strip(e.line)) \in {W_quit, W_exit}

\* event e is a line that is a message for the assistant
IsMessage(e) ==
  /\ "line" \in DOMAIN e
  /\ ~SaysQuit(e) /\ ~SaysWord(e, W_tools) /\ ~SaysWord(e, W_stream)
  /\ ~SaysWord(e, <<>>)

\* the streaming flag after the first n events: the flag the function was
\* called with, inverted once for every '/stream' among them
RECURSIVE FlagAfter(_)
FlagAfter(n) ==
  IF n = 0 THEN args.stream
  ELSE IF SaysWord(response.events[n], W_stream) THEN ~FlagAfter(n - 1)
  ELSE FlagAfter(n - 1)

\* the calls of chat_with_tools the first n events ask for: one per message,
\* with the flag of that moment
RECURSIVE ChatsAfter(_)
ChatsAfter(n) ==
  IF n = 0 THEN <<>>
  ELSE ChatsAfter(n - 1)
       \o (IF IsMessage(response.events[n])
           THEN << [message |-> Strip(response.events[n].line),
                    stream |-> FlagAfter(n - 1)] >>
           ELSE <<>>)

\* the first n events have been acted on: the flag is the one they ask for,
\* and the calls of chat_with_tools are the ones they ask for
ActedOn(n) ==
  /\ response.stream = FlagAfter(n)
  /\ Len(calls) = Len(ChatsAfter(n))
  /\ \A k \in 1..Len(calls) :
        /\ calls[k].message = ChatsAfter(n)[k].message
        /\ calls[k].stream = ChatsAfter(n)[k].stream

\* '/stream' inverts the flag and nothing else changes it; every message, and
\* nothing else, causes one call of chat_with_tools with the flag of the
\* moment: every event has been acted on, but for the last one while its
\* turn has only read it or after Ctrl+C has cut that turn short
FlagAndChatsFollowInput ==
  \/ ActedOn(Len(response.events))
  \/ /\ \/ op \in {"read", "goodbye"}
        \/ op = "ended" /\ response.end \in {"interrupt", "KeyboardInterrupt"}
     /\ Len(response.events) > 0
     /\ ActedOn(Len(response.events) - 1)

\* quit, exit and Ctrl+C end the loop: no further turn begins
QuitEndsLoop ==
  (response.events # <<>> /\
     \E e \in {response.events[Len(response.events)]} :
        SaysQuit(e) \/ ("key" \in DOMAIN e /\ e.key = "ctrl-c"))
  => op \in {"read", "quitting", "goodbye", "ended"}

\* C25 as claimed: in interactive_mode quit, exit and Ctrl+C end the loop,
\* '/stream' inverts the flag, '/tools' and an empty line do nothing, every
\* other input causes exactly one call of chat_with_tools with the current
\* flag, and the loop goes on after every input other than quit, exit and
\* Ctrl+C.
C25_LoopEndsOnlyOnQuit ==
  /\ FlagAndChatsFollowInput
  /\ QuitEndsLoop
  /\ op # "failing"
  /\ op = "ended" => response.end \in {"quit", "interrupt", "KeyboardInterrupt"}


\* the blocks of the first reply that can be parsed, the completion requests
\* sent so far and the tools executed so far
Parseable == SelectSeq(args.first, LAMBDA b : b.parses)
Requests == SelectSeq(calls, LAMBDA c : c.kind = "request")
Executions == SelectSeq(calls, LAMBDA c : c.kind = "execute")

\* chat_with_tools has ended after it read the first reply
ChatEnded ==
  /\ op \in {"returned", "raised"}
  /\ ~calls[1].failed

\* the conversation of the second request: the original messages, one
\* assistant message with all parsed calls, one tool message per call in the
\* order parsed, each with the id of its call, the ids pairwise distinct
SecondConversation(messages) ==
  /\ Len(messages) = Len(Original) + 1 + Len(Parseable)
  /\ SubSeq(messages, 1, Len(Original)) = Original
  /\ \E assistant \in {messages[Len(Original) + 1]} :
       /\ assistant.role = "assistant"
       /\ Len(assistant.tool_calls) = Len(Parseable)
       /\ \A m, n \in 1..Len(Parseable) :
             assistant.tool_calls[m].id = assistant.tool_calls[n].id => m = n
       /\ \A k \in 1..Len(Parseable) :
             /\ messages[Len(Original) + 1 + k].role = "tool"
             /\ messages[Len(Original) + 1 + k].tool_call_id = assistant.tool_calls[k].id
             /\ Len(Executions) >= k
             /\ Executions[k].id = assistant.tool_calls[k].id

\* C26 as claimed: chat_with_tools sends one completion request when the
\* first reply holds no parseable tool call and two otherwise; the second
\* request carries the original messages, one assistant message with all
\* parsed calls and one tool message per call, in order, with distinct ids;
\* every parsed call is executed once, and no call of the second reply is.
C26_TwoRequestProtocol ==
  /\ ChatEnded => Len(Requests) = (IF Len(Parseable) = 0 THEN 1 ELSE 2)
  /\ ChatEnded => Len(Executions) = Len(Parseable)
  /\ Len(Requests) <= 2 /\ Len(Executions) <= Len(Parseable)
  /\ Len(Requests) = 2 => SecondConversation(Requests[2].messages)

\* json.loads reads every block of the first reply or rejects it as no JSON
ParserReturns == \A i \in 1..Len(args.first) : ~args.first[i].raises

\* every tool call of the first reply has a name that can be hashed
NamesHashable ==
  \A i \in 1..Len(Parseable) : Parseable[i].name = <<>> \/ Parseable[i].name[1].hashable

\* where the protocol holds: in wikid_server whenever the parser returns, in
\* qwen_server when moreover every name can be hashed
TwoRequestProtocolWhereSound ==
  (ParserReturns /\ (args.client = "wikid_server" \/ NamesHashable))
     => C26_TwoRequestProtocol

\* the parser fails behind a tool call: chat_with_tools of wikid_server ends
\* after one request, the call parsed before is not executed
ParserFailsCase ==
  /\ args.client = "wikid_server"
  /\ op = "raised"
  /\ Len(args.first) = 2 /\ args.first[1].parses /\ args.first[2].raises
  /\ Len(Requests) = 1 /\ ~calls[1].failed /\ Len(Executions) = 0

\* the conversation with tool calls happens: a block that is no JSON, then a
\* call, which gets the id 1, and a second reply with a tool call
WikidTwoRequestCase ==
  /\ args.client = "wikid_server"
  /\ op = "returned"
  /\ Len(args.first) = 2 /\ ~args.first[1].parses /\ Len(Parseable) = 1
  /\ Len(args.second) > 0 /\ args.second[1].parses
  /\ Len(Requests) = 2 /\ Len(Executions) = 1
  /\ Executions[1].id = 1


\* how often the child process was spawned, terminated and waited for
Count(kind) == Len(SelectSeq(calls, LAMBDA c : c.kind = kind))

\* the manager keeps: running implies that a process was spawned
RunningHasProcess == response.running => (response.process /\ Count("Popen") = 1)

\* a stop() when not running, or a second time, does nothing: nothing is done
\* to the child before running is set, and the child is never terminated or
\* waited for again once it was waited for
StopOnceOnly ==
  /\ Count("wait") <= 1
  /\ Count("wait") = 1 /\ op # "waited" => calls[Len(calls)].kind = "wait" /\ ~response.running
  /\ Count("terminate") > 0 => calls[2].kind = "terminate" /\ response.process

\* what holds of stop(): it acts only on a manager with process and running
\* set, and once a stop() has cleared running no later stop() does anything
StopIdleUnlessRunning ==
  /\ Count("terminate") > 0 => calls[1].kind = "Popen" /\ response.process
  /\ Count("terminate") > 0 /\ ~response.running =>
        calls[Len(calls)].kind = "wait" /\ response.child = "reaped"
  /\ op \in {"waiting", "waited"} => response.running

\* the interrupt between wait() and `self.running = False`: the function is
\* left with running set, and a later stop() terminates and waits again
StoppedTwiceCase ==
  /\ op = "exited"
  /\ response.exit = "KeyboardInterrupt"
  /\ Count("terminate") = 2 /\ Count("wait") = 2
  /\ ~response.running

\* the interrupt inside Popen, or in finally before terminate(): the function
\* is left, the child runs on and nothing was done to it
ChildLeftAloneCase ==
  /\ op = "exited"
  /\ response.child = "alive"
  /\ Count("Popen") = 1 /\ Count("terminate") = 0
  /\ response.stops = MaxStops

\* C27 as claimed: on every exit path of start_web_server a vLLM child that
\* was spawned has been terminated and waited for exactly once; running
\* implies that a process was spawned; stop() when not running, or a second
\* time, does nothing.
C27_ChildAlwaysReaped ==
  /\ (op = "exited" /\ Count("Popen") > 0) =>
        Count("terminate") = 1 /\ Count("wait") = 1
  /\ RunningHasProcess
  /\ StopOnceOnly

\* the ways out on which the claim holds: the child is spawned, the web
\* server runs and returns, raises or is interrupted, and the child is
\* terminated and waited for once; two more calls of stop() change nothing
ServerStoppedCase ==
  /\ op = "exited"
  /\ response.exit = "return"
  /\ Count("Popen") = 1 /\ Count("terminate") = 1 /\ Count("wait") = 1
  /\ ~response.running
  /\ response.stops = MaxStops
====
